---- MODULE Spec2Model ----
(***************************************************************************)
(* A model of the tabular extraction and normalisation engine of the      *)
(* recruitment dashboard (src/app.py).                                     *)
(*                                                                         *)
(* SpecRollup:  monthly_rollup and the computations built on it           *)
(*              (compute_pl_fields, compute_bs_fields,                     *)
(*              compute_margin_fields) on a table of a request.            *)
(* SpecExtract: the row-label extractors of the placement report and of   *)
(*              the finance workbook on one sheet.                         *)
(* SpecRoute:   process_placement_report_route and process_finance_data   *)
(*              on a workbook.                                             *)
(*                                                                         *)
(* Cells are records [k, v]: k is the kind of the cell as pandas reads    *)
(* it, v its payload; a string cell carries its characters in s.  A date  *)
(* is the integer yyyymmdd.  A number that an aggregation returns is a    *)
(* rational [nan, num, den].  A string is the sequence of its characters. *)
(***************************************************************************)
EXTENDS Integers, Sequences, FiniteSets, TLC

\* ------------------------------------------------------------------ bounds

\* Most rows a generated table has.
MaxRows == 2

\* Most rows a generated sheet has.
MaxSheetRows == 2

\* Most sheets a generated workbook has.
MaxSheets == 3
MaxUploads == 2
MaxBlocks == 3

\* Most processing requests a browser makes.
MaxSaves == 2

\* --------------------------------------------------------------- the cells

Num(v) == [k |-> "num", v |-> v]
\* A string that spells the number v, as a CSV column of mixed content holds.
NumStr(v) == [k |-> "numstr", v |-> v]
\* A string that spells no number and no date.
Text == [k |-> "text", v |-> 0]
\* The empty string.
EmptyStr == [k |-> "empty", v |-> 0]
\* A missing cell (None, NaN).
Null == [k |-> "null", v |-> 0]
\* A timestamp, and a string that spells a date.
Ts(d) == [k |-> "ts", v |-> d]
DateStr(d) == [k |-> "datestr", v |-> d]
\* pandas' NaT.
NaT == [k |-> "nat", v |-> 0]

\* The numbers aggregations return: num/den, or NaN.
Rat(n, d) == [nan |-> FALSE, num |-> n, den |-> d]
NaN == [nan |-> TRUE, num |-> 0, den |-> 1]

\* "No column": the None that mapping.get("date") returns for a missing key.
NoCol == ""

\* pd.to_datetime(cell, errors="coerce")
to_datetime(c) ==
    IF c.k \in {"ts", "datestr"} THEN Ts(c.v) ELSE NaT

\* A faulty to_period_M, which keeps the day: C1 must tell it from the code.
to_period_M_KeepsDay(c) == Ts(c.v)

\* ts.to_period("M").to_timestamp(): the first day of the month of ts.
to_period_M(c) == Ts((c.v \div 100) * 100 + 1)

\* pd.to_numeric(cell, errors="coerce")
to_numeric(c) ==
    IF c.k \in {"num", "numstr"} THEN Rat(c.v, 1) ELSE NaN

\* ------------------------------------------------------------- the tables

\* A table is [cols: the column names, rows: a sequence of functions from
\* cols to cells].  pd.DataFrame() is the table without columns and rows.
EmptyFrame == [cols |-> {}, rows |-> << >>]

\* df.empty
IsEmpty(df) == df.cols = {} \/ Len(df.rows) = 0

RECURSIVE SumOver(_, _)
SumOver(S, f) ==
    IF S = {} THEN 0
    ELSE LET x == CHOOSE y \in S : TRUE
         IN f[x] + SumOver(S \ {x}, f)

RECURSIVE SortedSeq_Descending(_)
\* A faulty SortedSeq, which lists the members latest first: C19 must tell it
\* from the code.
SortedSeq_Descending(S) ==
    IF S = {} THEN << >>
    ELSE LET hi == CHOOSE x \in S : \A y \in S : y <= x
         IN <<hi>> \o SortedSeq_Descending(S \ {hi})

RECURSIVE SortedSeq(_)
\* The members of a set of integers, ascending.
SortedSeq(S) ==
    IF S = {} THEN << >>
    ELSE LET lo == CHOOSE x \in S : \A y \in S : x <= y
         IN <<lo>> \o SortedSeq(S \ {lo})

\* ---------------------------------------------------------- monthly_rollup

\* The rows that survive dropna(subset=[date_col]) after the coercion.
DatedRows(df, date_col) ==
    {i \in 1..Len(df.rows) : to_datetime(df.rows[i][date_col]).k = "ts"}

\* df2["__month"] of row i.
MonthOf(df, date_col, i) ==
    to_period_M(to_datetime(df.rows[i][date_col])).v

\* df2.groupby("__month"): each month's rows.
GroupBy(df, date_col) ==
    LET kept == DatedRows(df, date_col)
        months == {MonthOf(df, date_col, i) : i \in kept}
    IN [m \in months |-> {i \in kept : MonthOf(df, date_col, i) = m}]

\* One group's "sum": NaN is skipped, and the sum of nothing is 0.
AggSum(df, c, g) ==
    LET vals == [i \in g |-> to_numeric(df.rows[i][c])]
        ok == {i \in g : ~vals[i].nan}
    IN Rat(SumOver(ok, [i \in ok |-> vals[i].num]), 1)

\* One group's "mean": NaN is skipped, and the mean of nothing is NaN.
AggMean(df, c, g) ==
    LET vals == [i \in g |-> to_numeric(df.rows[i][c])]
        ok == {i \in g : ~vals[i].nan}
    IN IF ok = {} THEN NaN
       ELSE Rat(SumOver(ok, [i \in ok |-> vals[i].num]), Cardinality(ok))

\* A faulty Agg, which sums whatever the declared function: C2 must tell it
\* from the code.
Agg_AlwaysSum(df, c, fn, g) == AggSum(df, c, g)

Agg(df, c, fn, g) ==
    IF fn = "sum" THEN AggSum(df, c, g) ELSE AggMean(df, c, g)

\* monthly_rollup(df, date_col, agg_map): [raised, empty, rows], the rows
\* being [Month, val: field -> number], ascending by Month.
monthly_rollup(df, date_col, agg_map) ==
    IF IsEmpty(df) \/ date_col = NoCol \/ date_col \notin df.cols
    THEN [raised |-> FALSE, rows |-> << >>]
    ELSE IF \E c \in DOMAIN agg_map : c \notin df.cols
    THEN [raised |-> TRUE, rows |-> << >>]
    ELSE LET grp == GroupBy(df, date_col)
             months == SortedSeq(DOMAIN grp)
         IN [raised |-> FALSE,
             rows |-> [j \in 1..Len(months) |->
                        [Month |-> months[j],
                         val |-> [c \in DOMAIN agg_map |->
                                    Agg(df, c, agg_map[c], grp[months[j]])]]]]

\* ---------------------------------------------------------- try_parse_dates

\* pd.to_datetime(column, errors="ignore"): the column converted when every
\* cell of it parses, and left as it is otherwise.
try_parse_dates(df, c) ==
    IF IsEmpty(df) \/ c \notin df.cols THEN df
    ELSE IF \A i \in 1..Len(df.rows) : to_datetime(df.rows[i][c]).k = "ts"
    THEN [df EXCEPT !.rows =
            [i \in 1..Len(df.rows) |->
                [df.rows[i] EXCEPT ![c] = to_datetime(df.rows[i][c])]]]
    ELSE df

\* ------------------------------------------- compute_pl_fields / bs_fields

\* A value of a column mapping: no entry, one column name, a list of names.
NoEntry == [k |-> "none", cols |-> << >>]
Name(c) == [k |-> "name", cols |-> <<c>>]
List(cs) == [k |-> "list", cols |-> cs]

Primitives == {"revenue", "cogs", "opex", "other_income", "other_expense"}

\* `cols = mapping.get(key) or []`, a single name wrapped into a list.
PLCols(mv) == IF mv.k = "none" THEN << >> ELSE mv.cols

RECURSIVE RowSum(_, _)
\* df[cols].sum(axis=1) of one row, after the coercion: NaN is skipped.
RowSum(row, cols) ==
    IF cols = << >> THEN 0
    ELSE LET x == to_numeric(row[Head(cols)])
         IN (IF x.nan THEN 0 ELSE x.num) + RowSum(row, Tail(cols))

\* df[cols] raises KeyError when a name of cols is no column.
MissingCol(df, cols) == \E j \in 1..Len(cols) : cols[j] \notin df.cols

PLFields ==
    {"__revenue", "__cogs", "__opex", "__gross_profit",
     "__operating_income", "__other_income", "__other_expense", "__net_income"}

\* The three identities, row by row.
GrossProfit(revenue, cogs) == revenue - cogs
OperatingIncome(gross_profit, opex) == gross_profit - opex
\* A faulty NetIncome, which adds the other expense: C4 must tell it from
\* the code.
NetIncome_AddsExpense(operating_income, other_income, other_expense) ==
    operating_income + other_income + other_expense

NetIncome(operating_income, other_income, other_expense) ==
    operating_income + other_income - other_expense

\* The columns compute_pl_fields adds to one row.
PLRow(row, mapping) ==
    LET p == [key \in Primitives |-> RowSum(row, PLCols(mapping[key]))]
        gross == GrossProfit(p["revenue"], p["cogs"])
        operating == OperatingIncome(gross, p["opex"])
        net == NetIncome(operating, p["other_income"], p["other_expense"])
        added == [c \in PLFields |->
                    Num(CASE c = "__revenue" -> p["revenue"]
                          [] c = "__cogs" -> p["cogs"]
                          [] c = "__opex" -> p["opex"]
                          [] c = "__other_income" -> p["other_income"]
                          [] c = "__other_expense" -> p["other_expense"]
                          [] c = "__gross_profit" -> gross
                          [] c = "__operating_income" -> operating
                          [] OTHER -> net)]
    IN added @@ row

\* compute_pl_fields(df, mapping): the rolled-up frame, or raised.
compute_pl_fields(df, mapping) ==
    IF IsEmpty(df) THEN [raised |-> FALSE, rows |-> << >>]
    ELSE IF \E key \in Primitives : MissingCol(df, PLCols(mapping[key]))
    THEN [raised |-> TRUE, rows |-> << >>]
    ELSE LET d1 == try_parse_dates(df, mapping.date)
             d2 == [cols |-> d1.cols \cup PLFields,
                    rows |-> [i \in 1..Len(d1.rows) |-> PLRow(d1.rows[i], mapping)]]
         IN monthly_rollup(d2, mapping.date, [c \in PLFields |-> "sum"])

BSKeys == {"assets", "liabilities", "equity"}
BSFields == {"__assets", "__liabilities", "__equity"}

\* sum_cols never wraps a single name: `for c in cols` walks its characters
\* and df[name].sum(axis=1) is Series.sum(axis=1), which raises.
BSRaises(df, mv) ==
    \/ mv.k = "name"
    \/ mv.k = "list" /\ MissingCol(df, mv.cols)

BSRow(row, mapping) ==
    LET added == [c \in BSFields |->
                    Num(CASE c = "__assets" -> RowSum(row, mapping["assets"].cols)
                          [] c = "__liabilities" -> RowSum(row, mapping["liabilities"].cols)
                          [] OTHER -> RowSum(row, mapping["equity"].cols))]
    IN added @@ row

\* compute_bs_fields(df, mapping)
compute_bs_fields(df, mapping) ==
    IF IsEmpty(df) THEN [raised |-> FALSE, rows |-> << >>]
    ELSE IF \E key \in BSKeys : BSRaises(df, mapping[key])
    THEN [raised |-> TRUE, rows |-> << >>]
    ELSE LET d1 == try_parse_dates(df, mapping.date)
             d2 == [cols |-> d1.cols \cup BSFields,
                    rows |-> [i \in 1..Len(d1.rows) |-> BSRow(d1.rows[i], mapping)]]
         IN monthly_rollup(d2, mapping.date, [c \in BSFields |-> "mean"])


\* ------------------------------------------------------------- the charts

\* fig_line(df, x, y, title): None for an empty frame; for any other, the
\* name px is not bound in the module (the plotly imports were removed) and
\* the call raises NameError.
fig_line(rows) ==
    IF rows = << >> THEN [raised |-> FALSE, fig |-> "None"]
    ELSE [raised |-> TRUE, fig |-> "None"]

\* fig_area(df, x, y, title), of the same shape.
fig_area(rows) ==
    IF rows = << >> THEN [raised |-> FALSE, fig |-> "None"]
    ELSE [raised |-> TRUE, fig |-> "None"]

\* process_data for a session with a P&L and a balance-sheet file (an empty
\* frame for the one that is missing): the dates parsed, the rollups, the
\* KPIs of the last month and the charts; any exception leaves the handler.
\* fig_waterfall_from_pl catches its own and returns None.
process_data(pl_df_raw, bs_df_raw, mappings) ==
    LET pl == try_parse_dates(pl_df_raw, "Date")
        bs == try_parse_dates(bs_df_raw, "Date")
        pl_m == IF IsEmpty(pl) THEN [raised |-> FALSE, rows |-> << >>]
                ELSE compute_pl_fields(pl, mappings.pl_map)
        bs_m == IF IsEmpty(bs) THEN [raised |-> FALSE, rows |-> << >>]
                ELSE compute_bs_fields(bs, mappings.bs_map)
        failed == [raised |-> TRUE, rows |-> << >>, kpis |-> {}, charts |-> {},
                   has_pl_data |-> FALSE, has_bs_data |-> FALSE]
    IN IF pl_m.raised \/ bs_m.raised THEN failed
       ELSE IF pl_m.rows # << >> /\ (fig_area(pl_m.rows).raised \/ fig_line(pl_m.rows).raised)
       THEN failed
       ELSE IF bs_m.rows # << >> /\ fig_line(bs_m.rows).raised THEN failed
       ELSE [raised |-> FALSE, rows |-> << >>,
             kpis |-> (IF pl_m.rows = << >> THEN {}
                       ELSE {"Revenue (last period)", "Gross Profit (last period)",
                             "Net Income (last period)"})
                      \cup (IF bs_m.rows = << >> THEN {}
                            ELSE {"Assets (last)", "Liabilities (last)",
                                  "Assets - Liabilities (last)"}),
             charts |-> (IF pl_m.rows = << >> THEN {}
                         ELSE {"pl_area", "pl_line", "pl_waterfall"})
                        \cup (IF bs_m.rows = << >> THEN {} ELSE {"bs_line", "bs_equity"}),
             has_pl_data |-> pl_m.rows # << >>,
             has_bs_data |-> bs_m.rows # << >>]

\* ------------------------------------------------- compute_margin_fields

\* The agg_map compute_margin_fields builds: only the mapped columns that
\* the table has, margin_percent written last.
MarginAggMap(df, mapping) ==
    LET amt == IF mapping.margin_amount \in df.cols
               THEN {mapping.margin_amount} ELSE {}
        pct == IF mapping.margin_percent \in df.cols
               THEN {mapping.margin_percent} ELSE {}
    IN [c \in amt \cup pct |-> IF c \in pct THEN "mean" ELSE "sum"]

\* compute_margin_fields(df, mapping)
compute_margin_fields(df, mapping) ==
    IF IsEmpty(df) THEN [raised |-> FALSE, rows |-> << >>]
    ELSE monthly_rollup(try_parse_dates(df, mapping.date), mapping.date,
                        MarginAggMap(df, mapping))



\* --------------------------------------------------------------- strings

\* A string is the sequence of its characters.

\* str.lower()
lower(s) ==
    LET upper == <<"A", "B", "C", "D", "E", "F", "G", "H", "I", "J", "K", "L", "M",
                   "N", "O", "P", "Q", "R", "S", "T", "U", "V", "W", "X", "Y", "Z">>
        small == <<"a", "b", "c", "d", "e", "f", "g", "h", "i", "j", "k", "l", "m",
                   "n", "o", "p", "q", "r", "s", "t", "u", "v", "w", "x", "y", "z">>
    IN [i \in 1..Len(s) |->
            IF \E n \in 1..Len(upper) : upper[n] = s[i]
            THEN small[CHOOSE n \in 1..Len(upper) : upper[n] = s[i]]
            ELSE s[i]]

RECURSIVE lstrip(_)
lstrip(s) == IF s # << >> /\ Head(s) = " " THEN lstrip(Tail(s)) ELSE s
RECURSIVE rstrip(_)
rstrip(s) ==
    IF s # << >> /\ s[Len(s)] = " " THEN rstrip(SubSeq(s, 1, Len(s) - 1)) ELSE s
\* str.strip()
strip(s) == rstrip(lstrip(s))

\* `sub in s`, and Series.str.contains(sub) for a pattern of plain characters.
contains(s, sub) ==
    \E o \in 0..(Len(s) - Len(sub)) : \A i \in 1..Len(sub) : s[o + i] = sub[i]

RECURSIVE Digits(_)
\* str(n) of a natural number.
Digits(n) ==
    LET digit(d) == <<"0", "1", "2", "3", "4", "5", "6", "7", "8", "9">>[d + 1]
    IN IF n < 10 THEN <<digit(n)>> ELSE Digits(n \div 10) \o <<digit(n % 10)>>

\* The characters of the string literals of the code and of the sheets; the
\* em dash is the one character written U+2014.
Chars ==
    (" W2 " :> <<" ", "W", "2", " ">>)
    @@ ("em dash" :> <<"U+2014">>)
    @@ ("1099" :> <<"1", "0", "9", "9">>)
    @@ ("2024" :> <<"2", "0", "2", "4">>)
    @@ ("2025" :> <<"2", "0", "2", "5">>)
    @@ ("C2C" :> <<"C", "2", "C">>)
    @@ ("Direct Hire Net income" :> <<"D", "i", "r", "e", "c", "t", " ", "H", "i", "r", "e", " ", "N", "e", "t", " ", "i", "n", "c", "o", "m", "e">>)
    @@ ("Employment" :> <<"E", "m", "p", "l", "o", "y", "m", "e", "n", "t">>)
    @@ ("Gross Income" :> <<"G", "r", "o", "s", "s", " ", "I", "n", "c", "o", "m", "e">>)
    @@ ("Gross Margin IT Staffing" :> <<"G", "r", "o", "s", "s", " ", "M", "a", "r", "g", "i", "n", " ", "I", "T", " ", "S", "t", "a", "f", "f", "i", "n", "g">>)
    @@ ("IT Staffing Net Income" :> <<"I", "T", " ", "S", "t", "a", "f", "f", "i", "n", "g", " ", "N", "e", "t", " ", "I", "n", "c", "o", "m", "e">>)
    @@ ("Net Income" :> <<"N", "e", "t", " ", "I", "n", "c", "o", "m", "e">>)
    @@ ("Net Placements" :> <<"N", "e", "t", " ", "P", "l", "a", "c", "e", "m", "e", "n", "t", "s">>)
    @@ ("Net billables" :> <<"N", "e", "t", " ", "b", "i", "l", "l", "a", "b", "l", "e", "s">>)
    @@ ("New Placements" :> <<"N", "e", "w", " ", "P", "l", "a", "c", "e", "m", "e", "n", "t", "s">>)
    @@ ("Placements" :> <<"P", "l", "a", "c", "e", "m", "e", "n", "t", "s">>)
    @@ ("Referral" :> <<"R", "e", "f", "e", "r", "r", "a", "l">>)
    @@ ("Revenue" :> <<"R", "e", "v", "e", "n", "u", "e">>)
    @@ ("Services Net income" :> <<"S", "e", "r", "v", "i", "c", "e", "s", " ", "N", "e", "t", " ", "i", "n", "c", "o", "m", "e">>)
    @@ ("TBD" :> <<"T", "B", "D">>)
    @@ ("TG 1099" :> <<"T", "G", " ", "1", "0", "9", "9">>)
    @@ ("TG C2C" :> <<"T", "G", " ", "C", "2", "C">>)
    @@ ("TG Referral" :> <<"T", "G", " ", "R", "e", "f", "e", "r", "r", "a", "l">>)
    @@ ("TG W2" :> <<"T", "G", " ", "W", "2">>)
    @@ ("Techgene 1099" :> <<"T", "e", "c", "h", "g", "e", "n", "e", " ", "1", "0", "9", "9">>)
    @@ ("Techgene PnL new" :> <<"T", "e", "c", "h", "g", "e", "n", "e", " ", "P", "n", "L", " ", "n", "e", "w">>)
    @@ ("Terminations" :> <<"T", "e", "r", "m", "i", "n", "a", "t", "i", "o", "n", "s">>)
    @@ ("Total Expense" :> <<"T", "o", "t", "a", "l", " ", "E", "x", "p", "e", "n", "s", "e">>)
    @@ ("Total Income" :> <<"T", "o", "t", "a", "l", " ", "I", "n", "c", "o", "m", "e">>)
    @@ ("Total billables" :> <<"T", "o", "t", "a", "l", " ", "b", "i", "l", "l", "a", "b", "l", "e", "s">>)
    @@ ("VNST C2C" :> <<"V", "N", "S", "T", " ", "C", "2", "C">>)
    @@ ("VNST W2" :> <<"V", "N", "S", "T", " ", "W", "2">>)
    @@ ("Vensiti PnL new" :> <<"V", "e", "n", "s", "i", "t", "i", " ", "P", "n", "L", " ", "n", "e", "w">>)
    @@ ("W2" :> <<"W", "2">>)
    @@ ("gross" :> <<"g", "r", "o", "s", "s">>)
    @@ ("margin" :> <<"m", "a", "r", "g", "i", "n">>)
    @@ ("nan" :> <<"n", "a", "n">>)
    @@ ("net income %" :> <<"n", "e", "t", " ", "i", "n", "c", "o", "m", "e", " ", "%">>)
    @@ ("total" :> <<"t", "o", "t", "a", "l">>)
    @@ (".xlsx" :> <<".", "x", "l", "s", "x">>)
    @@ (".xls" :> <<".", "x", "l", "s">>)
    @@ ("consolidated" :> <<"c", "o", "n", "s", "o", "l", "i", "d", "a", "t", "e", "d">>)
    @@ ("data" :> <<"d", "a", "t", "a">>)
    @@ ("placement" :> <<"p", "l", "a", "c", "e", "m", "e", "n", "t">>)
    @@ ("summary" :> <<"s", "u", "m", "m", "a", "r", "y">>)
    @@ ("Sheet1" :> <<"S", "h", "e", "e", "t", "1">>)
    @@ ("Notes" :> <<"N", "o", "t", "e", "s">>)
    @@ ("Summary" :> <<"S", "u", "m", "m", "a", "r", "y">>)
    @@ ("Raw Data" :> <<"R", "a", "w", " ", "D", "a", "t", "a">>)
    @@ ("r.xlsx" :> <<"r", ".", "x", "l", "s", "x">>)
    @@ ("R.XLS" :> <<"R", ".", "X", "L", "S">>)
    @@ ("d.csv" :> <<"d", ".", "c", "s", "v">>)
    @@ ("Summary of Business Units" :> <<"S", "u", "m", "m", "a", "r", "y", " ", "o", "f", " ", "B", "u", "s", "i", "n", "e", "s", "s", " ", "U", "n", "i", "t", "s">>)
    @@ (" 00:00:00" :> <<" ", "0", "0", ":", "0", "0", ":", "0", "0">>)
    @@ ("u1" :> <<"u", "1">>)
    @@ ("u2" :> <<"u", "2">>)
    @@ ("rec" :> <<"r", "e", "c">>)
    @@ ("finance" :> <<"f", "i", "n", "a", "n", "c", "e">>)
    @@ ("pl" :> <<"p", "l">>)
    @@ ("*" :> <<"*">>)
    @@ ("_file_" :> <<"_", "f", "i", "l", "e", "_">>)
    @@ ("uploads/" :> <<"u", "p", "l", "o", "a", "d", "s", "/">>)
    @@ ("_" :> <<"_">>)

\* The months of the fixed eight-month window.
Months ==
    <<<<"J", "a", "n">>,
      <<"F", "e", "b">>,
      <<"M", "a", "r">>,
      <<"A", "p", "r">>,
      <<"M", "a", "y">>,
      <<"J", "u", "n">>,
      <<"J", "u", "l">>,
      <<"A", "u", "g">>>>

\* ------------------------------------------------------------ the sheets

\* A string cell that spells no number and no date, with its text.
Str(s) == [k |-> "str", v |-> 0, s |-> s]

\* pd.notna(cell)
notna(c) == c.k \notin {"null", "nat"}

\* str(cell), which is also what astype(str) makes of the cell, for the
\* cells a sheet's rows hold: strings, numbers and nulls.
StrOf(c) ==
    CASE c.k = "str" -> c.s
      [] c.k = "text" -> Chars["TBD"]
      [] c.k = "empty" -> << >>
      [] c.k \in {"num", "numstr"} -> Digits(c.v)
      [] c.k = "null" -> Chars["nan"]

\* float(cell) of a cell that is not null: the number, or the exception
\* float raises.
FloatOf(c) ==
    CASE c.k \in {"num", "numstr"} -> [err |-> "none", v |-> c.v]
      [] c.k \in {"str", "text", "empty", "datestr"} -> [err |-> "ValueError", v |-> 0]
      [] OTHER -> [err |-> "TypeError", v |-> 0]

\* `float(val) if pd.notna(val) else 0`, with 0 on ValueError and TypeError.
FloatOrZero(c) ==
    IF ~notna(c) THEN 0
    ELSE IF FloatOf(c).err = "none" THEN FloatOf(c).v ELSE 0

\* A sheet is [header: the column labels, rows: sequences of as many cells].
Width(sh) == Len(sh.header)
\* pd.DataFrame(), as a sheet.
EmptySheet == [header |-> << >>, rows |-> << >>]
\* df.empty
IsEmptySheet(sh) == Width(sh) = 0 \/ Len(sh.rows) = 0
\* row.iloc[i]
iloc(row, i) == row[i + 1]

\* Whether a label cell matches the label looked for: the exact match of the
\* stripped text, and str.contains with and without case=False.
Matches(mode, c, label) ==
    CASE mode = "exact" -> notna(c) /\ strip(StrOf(c)) = label
      [] mode = "icontains" -> contains(lower(StrOf(c)), lower(label))
      [] OTHER -> contains(StrOf(c), label)

MatchingRows(sh, col, label, mode) ==
    {i \in 1..Len(sh.rows) : Matches(mode, iloc(sh.rows[i], col), label)}

\* A faulty TopRow, which takes the matching row furthest down: C5 must tell
\* it from the code.
TopRow_Last(S) == CHOOSE i \in S : \A j \in S : j <= i

\* The row the `break` of the scan, and `.iloc[0]` of the filtered frame, keep.
TopRow(S) == CHOOSE i \in S : \A j \in S : i <= j

\* What an extractor returns: whether it raised, whether it returned {} for an
\* empty sheet, and the series it found, by label.
Raised == [raised |-> TRUE, none |-> FALSE, found |-> << >>]
ReturnedNothing == [raised |-> FALSE, none |-> TRUE, found |-> << >>]
Found(f) == [raised |-> FALSE, none |-> FALSE, found |-> f]

\* A faulty conversion, which drops the cells that are no numbers: C6 must
\* tell it from the code.
ConvertRange_DropsBadCells(row, first, last) ==
    LET all == [p \in 1..(last - first + 1) |-> iloc(row, first + p - 1)]
        kept == SelectSeq(all, LAMBDA c : notna(c) /\ FloatOf(c).err = "none")
    IN [p \in 1..Len(kept) |-> FloatOf(kept[p]).v]

\* The cells of columns first..last of a row, each converted on its own.
ConvertRange(row, first, last) ==
    [p \in 1..(last - first + 1) |-> FloatOrZero(iloc(row, first + p - 1))]

\* The scan of process_sheet1_employment and process_sheet2_placements: for
\* each label the first row whose label cell is the label, and the cells of
\* its columns first..last.  row.iloc[i] raises IndexError past the width.
FixedRangeExtract(sh, labels, labelCol, first, last) ==
    IF IsEmptySheet(sh) THEN ReturnedNothing
    ELSE IF Width(sh) <= labelCol THEN Raised
    ELSE LET hit == {l \in labels : MatchingRows(sh, labelCol, l, "exact") # {}}
         IN IF hit # {} /\ Width(sh) <= last THEN Raised
            ELSE Found([l \in hit |->
                    ConvertRange(sh.rows[TopRow(MatchingRows(sh, labelCol, l, "exact"))],
                                 first, last)])

Sheet1Labels == {Chars["TG W2"], Chars["TG C2C"], Chars["TG 1099"], Chars["TG Referral"]}

\* The labels are in column 3 and the values in columns 4 to 11.
process_sheet1_employment(sh) == FixedRangeExtract(sh, Sheet1Labels, 3, 4, 11)

Sheet2Labels ==
    {Chars["W2"], Chars["C2C"], Chars["1099"], Chars["Referral"],
     Chars["Total billables"], Chars["New Placements"], Chars["Terminations"],
     Chars["Net Placements"], Chars["Net billables"]}

\* The labels are in column 0 and the values in columns 1 to 8.
process_sheet2_placements(sh) == FixedRangeExtract(sh, Sheet2Labels, 0, 1, 8)

ReportLabels ==
    {Chars["W2"], Chars["C2C"], Chars["1099"], Chars["Referral"],
     Chars["New Placements"], Chars["Terminations"], Chars["Net Placements"],
     Chars["Net billables"], Chars["Total billables"]}

\* process_placement_report(df): the months are the columns after the first,
\* and a label's series the cells of the first row that contains it.
process_placement_report(sh) ==
    IF IsEmptySheet(sh) THEN ReturnedNothing
    ELSE LET hit == {l \in ReportLabels : MatchingRows(sh, 0, l, "icontains") # {}}
         IN Found([l \in hit |->
                ConvertRange(sh.rows[TopRow(MatchingRows(sh, 0, l, "icontains"))],
                             1, Width(sh) - 1)])

\* The month columns of a business-unit sheet: those headed by a date.
MonthColumns(sh) == SortedSeq({c \in 1..Width(sh) : sh.header[c].k = "ts"})

\* One series of extract_business_unit_data: zeros when no row contains the
\* label, and zeros when anything raises while the row is read.  A cell is
\* converted by `float(val) if pd.notna(val) and val != '' else 0`.
BUSeries(sh, labelCol, label) ==
    LET mc == MonthColumns(sh)
        zeros == [p \in 1..Len(mc) |-> 0]
        blank(c) == ~notna(c) \/ c.k = "empty"
    IN IF Width(sh) <= labelCol THEN zeros
       ELSE LET M == MatchingRows(sh, labelCol, label, "contains")
            IN IF M = {} THEN zeros
               ELSE LET row == sh.rows[TopRow(M)]
                    IN IF \E p \in 1..Len(mc) :
                            ~blank(row[mc[p]]) /\ FloatOf(row[mc[p]]).err # "none"
                       THEN zeros
                       ELSE [p \in 1..Len(mc) |->
                                IF blank(row[mc[p]]) THEN 0 ELSE FloatOf(row[mc[p]]).v]

BULabels == {Chars["Revenue"], Chars["Gross Income"], Chars["Net Income"]}

\* Revenue is looked for in the second column, the incomes in the first.
extract_business_unit_data(sh) ==
    IF IsEmptySheet(sh) THEN ReturnedNothing
    ELSE Found([l \in BULabels |->
            BUSeries(sh, IF l = Chars["Revenue"] THEN 1 ELSE 0, l)])

\* f"{month} 25"
month_col(m) == Months[m] \o <<" ", "2", "5">>

\* One of the three lookups of a month of extract_pnl_data: the number it
\* appends, or the ValueError that float raises and the lookup lets through.
PnlLookup(sh, labelCol, label, name) ==
    IF Width(sh) <= labelCol THEN [err |-> FALSE, v |-> 0]
    ELSE LET M == MatchingRows(sh, labelCol, label, "contains")
         IN IF M = {} THEN [err |-> FALSE, v |-> 0]
            ELSE LET col == CHOOSE c \in 1..Width(sh) : sh.header[c] = Str(name)
                     cell == sh.rows[TopRow(M)][col]
                 IN IF ~notna(cell) THEN [err |-> FALSE, v |-> 0]
                    ELSE [err |-> FloatOf(cell).err = "ValueError",
                          v |-> FloatOf(cell).v]

PnlAppend(acc, ti, te, ni) ==
    [ti |-> acc.ti \o ti, te |-> acc.te \o te, ni |-> acc.ni \o ni]

\* One month of extract_pnl_data.  A ValueError leaves what the month has
\* appended so far and appends a 0 to each of the three lists.
PnlMonth(sh, m, acc) ==
    IF \A c \in 1..Width(sh) : sh.header[c] # Str(month_col(m))
    THEN PnlAppend(acc, <<0>>, <<0>>, <<0>>)
    ELSE LET a == PnlLookup(sh, 3, Chars["Total Income"], month_col(m))
             b == PnlLookup(sh, 3, Chars["Total Expense"], month_col(m))
             c == PnlLookup(sh, 0, Chars["Net Income"], month_col(m))
         IN IF a.err THEN PnlAppend(acc, <<0>>, <<0>>, <<0>>)
            ELSE IF b.err THEN PnlAppend(acc, <<a.v, 0>>, <<0>>, <<0>>)
            ELSE IF c.err THEN PnlAppend(acc, <<a.v, 0>>, <<b.v, 0>>, <<0>>)
            ELSE PnlAppend(acc, <<a.v>>, <<b.v>>, <<c.v>>)

RECURSIVE PnlMonths(_, _)
PnlMonths(sh, m) ==
    IF m = 0 THEN [ti |-> << >>, te |-> << >>, ni |-> << >>]
    ELSE PnlMonth(sh, m, PnlMonths(sh, m - 1))

PnlLabels == {Chars["Total Income"], Chars["Total Expense"], Chars["Net Income"]}

extract_pnl_data(sh) ==
    IF IsEmptySheet(sh) THEN ReturnedNothing
    ELSE LET acc == PnlMonths(sh, Len(Months))
         IN Found([l \in PnlLabels |->
                CASE l = Chars["Total Income"] -> acc.ti
                  [] l = Chars["Total Expense"] -> acc.te
                  [] OTHER -> acc.ni])

\* ---------------------------------------------------- process_sheet3_margins

\* The figures process_sheet3_margins puts in place of a sheet without data.
sample_data ==
    [n \in {Chars["Techgene 1099"], Chars["TG C2C"], Chars["TG W2"],
            Chars["VNST C2C"], Chars["VNST W2"]} |->
        CASE n = Chars["Techgene 1099"] -> <<30, 15, 45>>
          [] n = Chars["TG C2C"] -> <<45, 30, 75>>
          [] n = Chars["TG W2"] -> <<50, 35, 110>>
          [] n = Chars["VNST C2C"] -> <<2, 10, 12>>
          [] OTHER -> <<5, 15, 20>>]

\* Whether a row names a company.
MarginRowNamed(row) ==
    /\ notna(iloc(row, 0))
    /\ strip(StrOf(iloc(row, 0))) # << >>
    /\ lower(strip(StrOf(iloc(row, 0)))) \notin
            {Chars["2024"], Chars["2025"], Chars["total"], Chars["nan"]}

\* Whether reading the three figures of a row raises (and the row is skipped).
MarginRowFails(row) ==
    \/ Len(row) < 4
    \/ \E i \in 1..3 : notna(iloc(row, i)) /\ FloatOf(iloc(row, i)).err # "none"

MarginRowValues(row) ==
    LET y24 == FloatOrZero(iloc(row, 1))
        y25 == FloatOrZero(iloc(row, 2))
    IN <<y24, y25, IF notna(iloc(row, 3)) THEN FloatOf(iloc(row, 3)).v ELSE y24 + y25>>

UsableMarginRows(sh) ==
    {i \in 1..Len(sh.rows) : MarginRowNamed(sh.rows[i]) /\ ~MarginRowFails(sh.rows[i])}

\* process_sheet3_margins(df): the figures of each company, a later row of a
\* company replacing an earlier one, or the sample figures when no row is usable.
process_sheet3_margins(sh) ==
    IF IsEmptySheet(sh) THEN [none |-> TRUE, margin_data |-> << >>, sample |-> FALSE]
    ELSE LET U == UsableMarginRows(sh)
             names == {strip(StrOf(iloc(sh.rows[i], 0))) : i \in U}
         IN IF U = {}
            THEN [none |-> FALSE, margin_data |-> sample_data, sample |-> TRUE]
            ELSE [none |-> FALSE,
                  margin_data |-> [n \in names |->
                      MarginRowValues(sh.rows[CHOOSE i \in U :
                          /\ strip(StrOf(iloc(sh.rows[i], 0))) = n
                          /\ \A j \in U :
                                strip(StrOf(iloc(sh.rows[j], 0))) = n => j <= i])],
                  sample |-> FALSE]

\* create_gross_margin_chart_from_sheets: an empty line chart without margin
\* data, else a bar chart of the companies with their three figures.
create_gross_margin_chart_from_sheets(sheet3_data) ==
    IF sheet3_data.none \/ DOMAIN sheet3_data.margin_data = {}
    THEN [type |-> "line", labels |-> {}, datasets |-> << >>]
    ELSE [type |-> "bar", labels |-> DOMAIN sheet3_data.margin_data,
          datasets |-> sheet3_data.margin_data]

\* ------------------------------------------------------------ the workbooks

\* A workbook is [ok: whether pd.ExcelFile opens it, sheets: the sequence of
\* its sheets, each [name, sheet]].  A sheet that pd.read_excel cannot read
\* is read as pd.DataFrame().
SheetAt(b, i) == IF Len(b.sheets) >= i THEN b.sheets[i].sheet ELSE EmptySheet

read_placement_report_excel(b) ==
    IF ~b.ok
    THEN [success |-> FALSE, sheet1_employment |-> EmptySheet,
          sheet2_placements |-> EmptySheet, sheet3_margins |-> EmptySheet,
          sheet4_additional |-> EmptySheet]
    ELSE LET margin == {i \in 1..Len(b.sheets) :
                             \/ contains(lower(b.sheets[i].name), Chars["gross"])
                             \/ contains(lower(b.sheets[i].name), Chars["margin"])}
         IN [success |-> TRUE,
             sheet1_employment |-> SheetAt(b, 1),
             sheet2_placements |-> SheetAt(b, 2),
             sheet3_margins |->
                 IF margin = {} THEN EmptySheet ELSE b.sheets[TopRow(margin)].sheet,
             sheet4_additional |-> SheetAt(b, 4)]

RECURSIVE SumSeq(_)
\* sum(values)
SumSeq(s) == IF s = << >> THEN 0 ELSE Head(s) + SumSeq(Tail(s))

\* f"{x:.0f}" of a whole number.
Fmt0(n) == IF n < 0 THEN <<"-">> \o Digits(0 - n) ELSE Digits(n)

\* dict.get(key, [0] * 8)
GetSeries(d, key) == IF key \in DOMAIN d THEN d[key] ELSE [p \in 1..8 |-> 0]

\* A faulty KPI, which reports the total of the sheet's own 'Net Placements'
\* row: C11 must tell it from the code.
calculate_placement_kpis_SheetRow(s1, s2, s3) ==
    IF s2.none THEN << >>
    ELSE [k \in {"Total Placements", "Total Terminations", "Net Placements",
                 "Net Billables"} |->
            CASE k = "Total Placements" ->
                    Fmt0(SumSeq(GetSeries(s2.found, Chars["New Placements"])))
              [] k = "Total Terminations" ->
                    Fmt0(SumSeq(GetSeries(s2.found, Chars["Terminations"])))
              [] k = "Net Placements" ->
                    Fmt0(SumSeq(GetSeries(s2.found, Chars["Net Placements"])))
              [] OTHER -> Fmt0(GetSeries(s2.found, Chars["Net billables"])[8])]

\* calculate_placement_kpis: the KPIs of the placement metrics of sheet 2.
calculate_placement_kpis(s1, s2, s3) ==
    IF s2.none THEN << >>
    ELSE LET new_placements == GetSeries(s2.found, Chars["New Placements"])
             terminations == GetSeries(s2.found, Chars["Terminations"])
             net_billables == GetSeries(s2.found, Chars["Net billables"])
         IN [k \in {"Total Placements", "Total Terminations", "Net Placements",
                    "Net Billables"} |->
                CASE k = "Total Placements" -> Fmt0(SumSeq(new_placements))
                  [] k = "Total Terminations" -> Fmt0(SumSeq(terminations))
                  [] k = "Net Placements" ->
                        Fmt0(SumSeq(new_placements) - SumSeq(terminations))
                  [] OTHER -> Fmt0(net_billables[8])]

\* saved is what the request handed to safe_save_user_data: the parts of the
\* tree, and those of them it passed through clean_data_for_json before.
ErrorResponse ==
    [success |-> FALSE, charts |-> {}, kpis |-> << >>, processed |-> {},
     saved |-> [parts |-> {}, cleaned |-> {}]]

\* The body of process_placement_report_route for the uploaded workbook: an
\* exception of any of its calls is answered with an error.
process_placement_report_route(b) ==
    LET excel_data == read_placement_report_excel(b)
        sheet1_data == process_sheet1_employment(excel_data.sheet1_employment)
        sheet2_data == process_sheet2_placements(excel_data.sheet2_placements)
        sheet3_data == process_sheet3_margins(excel_data.sheet3_margins)
    IN IF ~excel_data.success THEN ErrorResponse
       ELSE IF sheet1_data.raised \/ sheet2_data.raised THEN ErrorResponse
       ELSE [success |-> TRUE,
             charts |->
                 (IF sheet2_data.none THEN {}
                  ELSE {"placement_metrics", "billables_trend"})
                 \cup (IF sheet3_data.none THEN {} ELSE {"gross_margin"}),
             kpis |-> calculate_placement_kpis(sheet1_data, sheet2_data, sheet3_data),
             processed |->
                 (IF sheet1_data.none THEN {} ELSE {"sheet1"})
                 \cup (IF sheet2_data.none THEN {} ELSE {"sheet2"})
                 \cup (IF sheet3_data.none THEN {} ELSE {"sheet3"})
                 \cup (IF IsEmptySheet(excel_data.sheet4_additional) THEN {}
                       ELSE {"sheet4"}),
             saved |-> [parts |-> {"charts", "kpis", "sheet1_data", "sheet2_data",
                                   "sheet3_data", "processing_status", "has_data"},
                        cleaned |-> {}]]

\* The sheets of a finance workbook by name: sheets[name], name in sheets.
SheetNames(b) == {b.sheets[i].name : i \in 1..Len(b.sheets)}
SheetNamed(b, name) ==
    b.sheets[CHOOSE i \in 1..Len(b.sheets) : b.sheets[i].name = name].sheet

BusinessUnitSheets ==
    {Chars["Direct Hire Net income"], Chars["Services Net income"],
     Chars["IT Staffing Net Income"]}
PnlSheets == {Chars["Techgene PnL new"], Chars["Vensiti PnL new"]}

\* process_finance_data: what is extracted from each business-unit sheet and
\* each P&L sheet the workbook has, each sheet on its own.
process_finance_data(b) ==
    IF ~b.ok THEN [none |-> TRUE, business_units |-> << >>, monthly_data |-> << >>]
    ELSE [none |-> FALSE,
          business_units |->
              [n \in BusinessUnitSheets \cap SheetNames(b) |->
                  extract_business_unit_data(SheetNamed(b, n))],
          monthly_data |->
              [n \in PnlSheets \cap SheetNames(b) |->
                  extract_pnl_data(SheetNamed(b, n))]]

\* ------------------------------------------------------ clean_data_for_json

\* A tree is a leaf (a number, a string, a boolean, None, a pd.Timestamp, a
\* datetime, a date) or [k |-> "dict", items: key -> tree] or
\* [k |-> "list", items: sequence of trees].

RECURSIVE clean_data_for_json_Shallow(_)
\* A faulty cleaning, which leaves lists as they are: C17 must tell it from
\* the code.
clean_data_for_json_Shallow(data) ==
    LET two(n) == IF n < 10 THEN <<"0">> \o Digits(n) ELSE Digits(n)
        iso(d) == Digits(d \div 10000) \o <<"-">> \o two((d \div 100) % 100)
                  \o <<"-">> \o two(d % 100)
    IN CASE data.k = "dict" ->
                [k |-> "dict",
                 items |-> [key \in DOMAIN data.items |->
                                clean_data_for_json_Shallow(data.items[key])]]
         [] data.k \in {"ts", "datetime"} -> Str(iso(data.v) \o Chars[" 00:00:00"])
         [] data.k = "date" -> Str(iso(data.v))
         [] OTHER -> data

RECURSIVE clean_data_for_json(_)
\* clean_data_for_json(data): dicts and lists are rebuilt with their members
\* cleaned; a Timestamp or datetime becomes strftime('%Y-%m-%d %H:%M:%S') of
\* it, another object with year and month its str(); int, float, str, bool
\* and None are returned as they are.
clean_data_for_json(data) ==
    LET two(n) == IF n < 10 THEN <<"0">> \o Digits(n) ELSE Digits(n)
        iso(d) == Digits(d \div 10000) \o <<"-">> \o two((d \div 100) % 100)
                  \o <<"-">> \o two(d % 100)
    IN CASE data.k = "dict" ->
                [k |-> "dict",
                 items |-> [key \in DOMAIN data.items |->
                                clean_data_for_json(data.items[key])]]
         [] data.k = "list" ->
                [k |-> "list",
                 items |-> [i \in 1..Len(data.items) |->
                                clean_data_for_json(data.items[i])]]
         [] data.k \in {"ts", "datetime"} -> Str(iso(data.v) \o Chars[" 00:00:00"])
         [] data.k = "date" -> Str(iso(data.v))
         [] OTHER -> data

\* ------------------------------- safe_save_user_data / safe_load_user_data

\* A payload is [by, n, plain]: the user whose request made it, its serial
\* number, and whether json.dump can write it.  A document or a return
\* value is << >> (None, no document) or <<payload>>.

\* What write_json leaves of a file when json.dump raises half-way: a text
\* json.load cannot read.
Truncated == [by |-> "nobody", n |-> 0, plain |-> FALSE]

\* safe_save_user_data(user_id, 'main_data', data, 'recruitment') on the
\* stores st = [firestore_db, disk, session]: what it returns, the backends
\* it called in order, those that stored the payload, and the stores after.
safe_save_user_data(st, cfg, user_id, data) ==
    LET result(ok, tried, wrote, f, d, s) ==
            [ok |-> ok, tried |-> tried, wrote |-> wrote,
             firestore_db |-> f, disk |-> d, session |-> s]
        before == IF cfg.USE_FIRESTORE THEN <<"firestore">> ELSE << >>
        \* write_json: open(path, 'w') and json.dump
        written == IF data.plain THEN <<data>> ELSE <<Truncated>>
        disk_after == IF "file" \in cfg.up
                      THEN [st.disk EXCEPT ![user_id] = written] ELSE st.disk
    IN IF cfg.USE_FIRESTORE /\ "firestore" \in cfg.up
       THEN result(TRUE, before, {"firestore"},
                   [st.firestore_db EXCEPT ![user_id] = <<data>>], st.disk, st.session)
       ELSE IF "file" \in cfg.up /\ data.plain
       THEN result(TRUE, before \o <<"file">>, {"file"},
                   st.firestore_db, disk_after, st.session)
       ELSE IF "session" \in cfg.up
       THEN result(TRUE, before \o <<"file", "session">>, {"session"},
                   st.firestore_db, disk_after,
                   [k \in DOMAIN st.session \cup {"recruitment_processed_data"} |->
                        IF k = "recruitment_processed_data" THEN data
                        ELSE st.session[k]])
       ELSE result(FALSE, before \o <<"file", "session">>, {},
                   st.firestore_db, disk_after, st.session)

\* safe_load_user_data(user_id, 'main_data', 'recruitment'): the document of
\* the first backend that has one, in the order Firestore, file, session.
safe_load_user_data(st, cfg, user_id) ==
    LET from_firestore ==
            IF cfg.USE_FIRESTORE /\ "firestore" \in cfg.up
            THEN st.firestore_db[user_id] ELSE << >>
        \* read_json: None when the file is absent or cannot be read
        from_file ==
            IF "file" \in cfg.up /\ st.disk[user_id] # <<Truncated>>
            THEN st.disk[user_id] ELSE << >>
        from_session ==
            IF "session" \in cfg.up /\ "recruitment_processed_data" \in DOMAIN st.session
            THEN <<st.session["recruitment_processed_data"]>> ELSE << >>
    IN IF from_firestore # << >> THEN from_firestore
       ELSE IF from_file # << >> THEN from_file
       ELSE from_session

\* ---------------------------------------------------------------- money_fmt

\* A faulty money_fmt, which compares the value itself with the thresholds
\* and so abbreviates no negative number: C21 must tell it from the code.
money_fmt_Signed(c) ==
    LET x == c.v
        abs_x == IF x < 0 THEN 0 - x ELSE x
        \* a / b rounded to the nearest whole number, a tie to the even one
        nearest(a, b) ==
            LET q == a \div b
                r == a % b
            IN IF 2 * r > b \/ (2 * r = b /\ q % 2 = 1) THEN q + 1 ELSE q
        RECURSIVE grouped(_)
        \* the ',' option: the digits of n in groups of three
        grouped(n) ==
            IF n < 1000 THEN Digits(n)
            ELSE grouped(n \div 1000) \o <<",">>
                    \o SubSeq(Digits(1000 + (n % 1000)), 2, 4)
        \* f"{x / 10^e:,.{places}f}", n being |x| / 10^e in units of
        \* 10^-places
        fixed(n, places) ==
            (IF x < 0 THEN <<"-">> ELSE << >>)
            \o grouped(n \div (10 ^ places))
            \o (IF places = 0 THEN << >>
                ELSE <<".">> \o SubSeq(Digits((10 ^ places) + (n % (10 ^ places))),
                                       2, places + 1))
    IN IF c.k \in {"null", "nat"} THEN Chars["em dash"]
       ELSE IF c.k # "num" THEN StrOf(c)
       ELSE IF x >= 10 ^ 9
       THEN <<"$">> \o fixed(nearest(abs_x, 10 ^ 7), 2) \o <<"B">>
       ELSE IF x >= 10 ^ 6
       THEN <<"$">> \o fixed(nearest(abs_x, 10 ^ 4), 2) \o <<"M">>
       ELSE IF x >= 10 ^ 3
       THEN <<"$">> \o fixed(nearest(abs_x, 10 ^ 2), 1) \o <<"k">>
       ELSE <<"$">> \o fixed(abs_x, 0)

\* money_fmt(x) of a cell: the placeholder for a null, the abbreviated
\* amount for a number, and str(x) for whatever abs() or the division
\* raises on.  The quotients are rounded as the format does for a quotient
\* that is a binary fraction.
money_fmt(c) ==
    LET x == c.v
        abs_x == IF x < 0 THEN 0 - x ELSE x
        \* a / b rounded to the nearest whole number, a tie to the even one
        nearest(a, b) ==
            LET q == a \div b
                r == a % b
            IN IF 2 * r > b \/ (2 * r = b /\ q % 2 = 1) THEN q + 1 ELSE q
        RECURSIVE grouped(_)
        \* the ',' option: the digits of n in groups of three
        grouped(n) ==
            IF n < 1000 THEN Digits(n)
            ELSE grouped(n \div 1000) \o <<",">>
                    \o SubSeq(Digits(1000 + (n % 1000)), 2, 4)
        \* f"{x / 10^e:,.{places}f}", n being |x| / 10^e in units of
        \* 10^-places
        fixed(n, places) ==
            (IF x < 0 THEN <<"-">> ELSE << >>)
            \o grouped(n \div (10 ^ places))
            \o (IF places = 0 THEN << >>
                ELSE <<".">> \o SubSeq(Digits((10 ^ places) + (n % (10 ^ places))),
                                       2, places + 1))
    IN IF c.k \in {"null", "nat"} THEN Chars["em dash"]
       ELSE IF c.k # "num" THEN StrOf(c)
       ELSE IF abs_x >= 10 ^ 9
       THEN <<"$">> \o fixed(nearest(abs_x, 10 ^ 7), 2) \o <<"B">>
       ELSE IF abs_x >= 10 ^ 6
       THEN <<"$">> \o fixed(nearest(abs_x, 10 ^ 4), 2) \o <<"M">>
       ELSE IF abs_x >= 10 ^ 3
       THEN <<"$">> \o fixed(nearest(abs_x, 10 ^ 2), 1) \o <<"k">>
       ELSE <<"$">> \o fixed(abs_x, 0)

\* ------------------------------------ calculate_comprehensive_finance_kpis

\* The function with the margin computed for every total revenue that is not
\* negative.
calculate_comprehensive_finance_kpis_NotNegative(processed_data) ==
    LET RECURSIVE sum(_)
        sum(q) == IF q = << >> THEN 0 ELSE Head(q) + sum(Tail(q))
        get(d, k) == IF k \in DOMAIN d THEN d[k] ELSE << >>
        RECURSIVE items(_, _, _)
        items(d, names, k) ==
            IF names = {} THEN 0
            ELSE LET name == CHOOSE x \in names : TRUE
                 IN sum(get(d[name], k)) + items(d, names \ {name}, k)
        total(section, k) ==
            items(get(processed_data, section), DOMAIN get(processed_data, section), k)
        total_revenue ==
            total("business_units", "revenue") + total("monthly_data", "total_income")
        total_expenses == total("monthly_data", "total_expense")
        total_net_income ==
            total("business_units", "net_income") + total("monthly_data", "net_income")
        months_count == 8
        kpi(value, label, format) == [value |-> value, label |-> label, format |-> format]
        ZeroDivisionError ==
            (total_revenue >= 0 /\ total_revenue = 0) \/ months_count = 0
    IN IF ZeroDivisionError
       THEN [printed |-> <<"ZeroDivisionError">>,
             kpis |-> [total_revenue |-> kpi(0, "Total Revenue", "currency"),
                       total_expenses |-> kpi(0, "Total Expenses", "currency"),
                       total_net_income |-> kpi(0, "Total Net Income", "currency"),
                       profit_margin |-> kpi(0, "Profit Margin", "percentage"),
                       avg_monthly_revenue |-> kpi(0, "Avg Monthly Revenue", "currency"),
                       avg_monthly_net_income |->
                            kpi(0, "Avg Monthly Net Income", "currency")]]
       ELSE [printed |-> << >>,
             kpis |->
                ("total_revenue" :> kpi(total_revenue, "Total Revenue", "currency"))
                @@ ("total_expenses" :> kpi(total_expenses, "Total Expenses", "currency"))
                @@ ("total_net_income" :>
                        kpi(total_net_income, "Total Net Income", "currency"))
                @@ (IF total_revenue >= 0
                    THEN "profit_margin" :>
                            kpi([num |-> total_net_income * 100, den |-> total_revenue],
                                "Profit Margin", "percentage")
                    ELSE << >>)
                @@ ("avg_monthly_revenue" :>
                        kpi([num |-> total_revenue, den |-> months_count],
                            "Avg Monthly Revenue", "currency"))
                @@ ("avg_monthly_net_income" :>
                        kpi([num |-> total_net_income, den |-> months_count],
                            "Avg Monthly Net Income", "currency"))]

\* calculate_comprehensive_finance_kpis(processed_data): the KPIs returned and
\* the error the except branch prints.  processed_data['business_units'] and
\* processed_data['monthly_data'] map sheet names to the extractors' results,
\* of which the function reads the lists 'revenue', 'net_income',
\* 'total_income' and 'total_expense'; an absent key and an empty list or
\* dictionary are skipped alike.  A quotient a / b is kept as
\* [num |-> a, den |-> b], and (a / b) * 100 as [num |-> a * 100, den |-> b];
\* a division by 0 raises, and the except branch returns the fallback KPIs.
calculate_comprehensive_finance_kpis(processed_data) ==
    LET RECURSIVE sum(_)
        sum(q) == IF q = << >> THEN 0 ELSE Head(q) + sum(Tail(q))
        get(d, k) == IF k \in DOMAIN d THEN d[k] ELSE << >>
        RECURSIVE items(_, _, _)
        items(d, names, k) ==
            IF names = {} THEN 0
            ELSE LET name == CHOOSE x \in names : TRUE
                 IN sum(get(d[name], k)) + items(d, names \ {name}, k)
        total(section, k) ==
            items(get(processed_data, section), DOMAIN get(processed_data, section), k)
        total_revenue ==
            total("business_units", "revenue") + total("monthly_data", "total_income")
        total_expenses == total("monthly_data", "total_expense")
        total_net_income ==
            total("business_units", "net_income") + total("monthly_data", "net_income")
        months_count == 8
        kpi(value, label, format) == [value |-> value, label |-> label, format |-> format]
        ZeroDivisionError ==
            (total_revenue > 0 /\ total_revenue = 0) \/ months_count = 0
    IN IF ZeroDivisionError
       THEN [printed |-> <<"ZeroDivisionError">>,
             kpis |-> [total_revenue |-> kpi(0, "Total Revenue", "currency"),
                       total_expenses |-> kpi(0, "Total Expenses", "currency"),
                       total_net_income |-> kpi(0, "Total Net Income", "currency"),
                       profit_margin |-> kpi(0, "Profit Margin", "percentage"),
                       avg_monthly_revenue |-> kpi(0, "Avg Monthly Revenue", "currency"),
                       avg_monthly_net_income |->
                            kpi(0, "Avg Monthly Net Income", "currency")]]
       ELSE [printed |-> << >>,
             kpis |->
                ("total_revenue" :> kpi(total_revenue, "Total Revenue", "currency"))
                @@ ("total_expenses" :> kpi(total_expenses, "Total Expenses", "currency"))
                @@ ("total_net_income" :>
                        kpi(total_net_income, "Total Net Income", "currency"))
                @@ (IF total_revenue > 0
                    THEN "profit_margin" :>
                            kpi([num |-> total_net_income * 100, den |-> total_revenue],
                                "Profit Margin", "percentage")
                    ELSE << >>)
                @@ ("avg_monthly_revenue" :>
                        kpi([num |-> total_revenue, den |-> months_count],
                            "Avg Monthly Revenue", "currency"))
                @@ ("avg_monthly_net_income" :>
                        kpi([num |-> total_net_income, den |-> months_count],
                            "Avg Monthly Net Income", "currency"))]

\* ---------------------------------------------------------------- the files

\* A file is [path, exists, content]; the content is a workbook with its
\* sheet names, a text (one that parses as UTF-8 CSV, one that parses only as
\* Latin-1, an empty one, one whose rows do not parse) or bytes of no format.

\* A faulty choice, which takes the last sheet whose name has a keyword: C14
\* must tell it from the code.
target_sheet_Last(sheet_names) ==
    LET hit == {i \in 1..Len(sheet_names) :
                    \E keyword \in {Chars["consolidated"], Chars["data"],
                                     Chars["placement"], Chars["summary"]} :
                        contains(lower(sheet_names[i]), keyword)}
    IN IF hit # {} THEN [raised |-> FALSE,
                         sheet |-> sheet_names[CHOOSE i \in hit : \A j \in hit : j <= i]]
       ELSE IF sheet_names = << >> THEN [raised |-> TRUE, sheet |-> << >>]
       ELSE [raised |-> FALSE, sheet |-> sheet_names[1]]

\* The sheet read_csv_file reads of a workbook: the loop over sheet_names
\* stops at the first name with a keyword; without one it is sheet_names[0],
\* which raises IndexError for no names.
target_sheet(sheet_names) ==
    LET RECURSIVE scan(_)
        scan(names) ==
            IF names = << >> THEN << >>
            ELSE IF \E keyword \in {Chars["consolidated"], Chars["data"],
                                     Chars["placement"], Chars["summary"]} :
                        contains(lower(Head(names)), keyword)
                 THEN Head(names)
                 ELSE scan(Tail(names))
    IN IF scan(sheet_names) # << >> THEN [raised |-> FALSE, sheet |-> scan(sheet_names)]
       ELSE IF sheet_names = << >> THEN [raised |-> TRUE, sheet |-> << >>]
       ELSE [raised |-> FALSE, sheet |-> sheet_names[1]]

\* read_csv_file(file_path): [raised, empty, sheet], empty for pd.DataFrame()
\* and sheet the sheet read of a workbook.  A workbook is read inside a try
\* that returns pd.DataFrame(); a text is read by pd.read_csv, and again as
\* Latin-1 when that raises, outside any try.
read_csv_file(f) ==
    LET endswith(str, suffix) ==
            /\ Len(str) >= Len(suffix)
            /\ SubSeq(str, Len(str) - Len(suffix) + 1, Len(str)) = suffix
        sentinel == [raised |-> FALSE, empty |-> TRUE, sheet |-> << >>]
    IN IF f.path = << >> \/ ~f.exists THEN sentinel
       ELSE IF \/ endswith(lower(f.path), Chars[".xlsx"])
               \/ endswith(lower(f.path), Chars[".xls"])
       THEN IF f.content.kind # "workbook" THEN sentinel
            ELSE IF target_sheet(f.content.sheet_names).raised THEN sentinel
            ELSE [raised |-> FALSE, empty |-> FALSE,
                  sheet |-> target_sheet(f.content.sheet_names).sheet]
       ELSE IF f.content.kind \in {"utf8", "latin1"}
            THEN [raised |-> FALSE, empty |-> FALSE, sheet |-> << >>]
            ELSE [raised |-> TRUE, empty |-> FALSE, sheet |-> << >>]

\* ------------------------------------------------------ get_user_file_path

\* get_user_file_path(user_id, file_type, ..) at the second timestamp, on the
\* upload folder: cleanup_old_user_files removes every file that
\* glob('<user_id>_<file_type>_file_*.xlsx') finds, a '*' of the pattern
\* standing for any characters, and the new path is
\* 'uploads/<user_id>_<file_type>_file_<timestamp>.xlsx'.
get_user_file_path(folder, user_id, file_type, timestamp) ==
    LET stem == Chars["uploads/"] \o Chars[user_id] \o Chars["_"] \o Chars[file_type]
                    \o Chars["_file_"]
        pattern == stem \o Chars["*"] \o Chars[".xlsx"]
        RECURSIVE fnmatch(_, _)
        fnmatch(name, pat) ==
            IF pat = << >> THEN name = << >>
            ELSE IF Head(pat) = "*"
            THEN fnmatch(name, Tail(pat)) \/ (name # << >> /\ fnmatch(Tail(name), pat))
            ELSE name # << >> /\ Head(name) = Head(pat) /\ fnmatch(Tail(name), Tail(pat))
        old_files == {n \in DOMAIN folder : fnmatch(n, pattern)}
    IN [folder |-> [n \in DOMAIN folder \ old_files |-> folder[n]],
        file_path |-> stem \o Digits(timestamp) \o Chars[".xlsx"]]

\* ------------------------------------------------------------------ state

VARIABLES
    df,     \* the table a request has loaded
    op,     \* the computation applied to it last ("none" before any)
    arg,    \* its mapping or arguments
    out,    \* what it returned: [raised, rows]
    grp,    \* the groups of its groupby: month -> rows of df
    sheet,  \* the sheet an extractor is given
    fn,     \* the extractor applied to it ("none" before any)
    res,    \* what the extractor returned
    book,   \* the workbook a processing request reads
    route,  \* the processing applied to it ("none" before any)
    resp,   \* what it answered
    given,  \* what a helper is called with
    call,  \* the helper called ("none" before any)
    ret, \* what it returned
    uploads,  \* the upload folder: file name -> content
    session,  \* the session of each user: key -> file name
    now,  \* the clock, in seconds
    answer, \* the last answer of /upload, with what the request found and wrote
    stored,  \* the JSON file of one user, category and data type: its blocks
    pc,  \* the savers: where each is in write_json, with its payload
    loaded, \* what the concurrent load returned: [got, doc], got "pending" before it
    firestore_db,  \* the Firestore document of each user
    disk,  \* the recruitment_main_data.json of each user
    flask_session,  \* the session of one browser: who is logged in, and its data
    backends,  \* which backends are configured and which answer
    reply,  \* what the last request of the browser did and answered
    latest  \* the payload each user saved last with success

rollupVars == <<df, op, arg, out, grp>>
extractVars == <<sheet, fn, res>>
routeVars == <<book, route, resp>>
helperVars == <<given, call, ret>>
uploadVars == <<uploads, session, now, answer>>
persistVars == <<stored, pc, loaded>>
storeVars == <<firestore_db, disk, flask_session, backends, reply, latest>>
vars == <<rollupVars, extractVars, routeVars, helperVars, uploadVars, persistVars, storeVars>>

\* ------------------------------------------------------- the rollup state


Columns == {"Date", "A", "B"}

RECURSIVE SeqsUpTo(_, _)
\* The sequences over S of length at most n.
SeqsUpTo(S, n) ==
    IF n = 0 THEN {<< >>}
    ELSE LET shorter == SeqsUpTo(S, n - 1)
         IN shorter \cup {Append(q, x) : q \in {r \in shorter : Len(r) = n - 1}, x \in S}

\* The generated tables: a date column of dates, a date string and a text,
\* a column A of a number, a numeric string and a text, a column B of a
\* number and a null.
Tables(n) ==
    LET DateCells == {Ts(20241203), Ts(20250115), DateStr(20250128), Text}
        ACells == {Num(1), NumStr(2), Text}
        BCells == {Num(1), Null}
        TableRows ==
            {[c \in Columns |-> CASE c = "Date" -> d [] c = "A" -> a [] OTHER -> b] :
                d \in DateCells, a \in ACells, b \in BCells}
    IN {[cols |-> Columns, rows |-> r] : r \in SeqsUpTo(TableRows, n)}

\* The groups behind a result: those of the date column, when there is one.
GroupsOf(d, date_col) ==
    IF IsEmpty(d) \/ date_col = NoCol \/ date_col \notin d.cols
    THEN << >> ELSE GroupBy(d, date_col)

InitRollup ==
    /\ df \in Tables(MaxRows)
    /\ op = "none"
    /\ arg = << >>
    /\ out = [raised |-> FALSE, rows |-> << >>]
    /\ grp = << >>
    /\ sheet = EmptySheet /\ fn = "none" /\ res = ReturnedNothing
    /\ book = [ok |-> FALSE, sheets |-> << >>] /\ route = "none" /\ resp = ErrorResponse
    /\ given = << >> /\ call = "none" /\ ret = << >>
    /\ uploads = << >> /\ session = << >> /\ now = 0 /\ answer = << >>
    /\ stored = << >> /\ pc = << >> /\ loaded = [got |-> "pending", doc |-> << >>]
    /\ firestore_db = << >> /\ disk = << >> /\ flask_session = << >> /\ backends = << >> /\ reply = << >> /\ latest = << >>

\* The aggregation maps and date columns monthly_rollup is called with.
RollupArgs ==
    {[date |-> "Date", agg |-> m] :
        m \in {[c \in {"A"} |-> "sum"], [c \in {"A"} |-> "mean"],
               [c \in {"A", "B"} |-> IF c = "A" THEN "sum" ELSE "mean"],
               [c \in {"A", "B"} |-> IF c = "A" THEN "mean" ELSE "sum"],
               [c \in {"Z"} |-> "sum"]}}
    \cup {[date |-> d, agg |-> [c \in {"A"} |-> "sum"]] : d \in {NoCol, "When"}}

Rollup ==
    \E a \in RollupArgs :
        /\ op = "none"
        /\ op' = "monthly_rollup"
        /\ arg' = a
        /\ out' = monthly_rollup(df, a.date, a.agg)
        /\ grp' = GroupsOf(df, a.date)
        /\ UNCHANGED <<df, extractVars, routeVars, helperVars, uploadVars, persistVars, storeVars>>

MarginMappings ==
    {[date |-> "Date", margin_amount |-> a, margin_percent |-> p] :
        a \in {"A", "B", NoCol}, p \in {"A", "B"}}

ComputeMargin ==
    \E m \in MarginMappings :
        /\ op = "none"
        /\ op' = "compute_margin_fields"
        /\ arg' = m
        /\ out' = compute_margin_fields(df, m)
        /\ grp' = GroupsOf(df, m.date)
        /\ UNCHANGED <<df, extractVars, routeVars, helperVars, uploadVars, persistVars, storeVars>>

\* The P&L mappings of a request: every primitive mapped, and that mapping
\* with one primitive left out, given as a single name, or mapped to a
\* column the table lacks; the mapping without a date column.
BasePL ==
    [date |-> "Date", revenue |-> List(<<"A">>), cogs |-> List(<<"B">>),
     opex |-> List(<<"A", "B">>), other_income |-> List(<<"B">>),
     other_expense |-> List(<<"A">>)]

PLMappings ==
    {BasePL, [BasePL EXCEPT !.date = NoCol]}
    \cup {[BasePL EXCEPT ![key] = mv] :
            key \in Primitives, mv \in {NoEntry, Name("A"), List(<<"Z">>)}}

ComputePL ==
    \E m \in PLMappings :
        /\ op = "none"
        /\ op' = "compute_pl_fields"
        /\ arg' = m
        /\ out' = compute_pl_fields(df, m)
        /\ grp' = GroupsOf(df, m.date)
        /\ UNCHANGED <<df, extractVars, routeVars, helperVars, uploadVars, persistVars, storeVars>>

BaseBS ==
    [date |-> "Date", assets |-> List(<<"A">>), liabilities |-> List(<<"B">>),
     equity |-> List(<<"A", "B">>)]

BSMappings ==
    {BaseBS}
    \cup {[BaseBS EXCEPT ![key] = mv] :
            key \in BSKeys, mv \in {NoEntry, Name("A"), List(<<"Z">>)}}

ComputeBS ==
    \E m \in BSMappings :
        /\ op = "none"
        /\ op' = "compute_bs_fields"
        /\ arg' = m
        /\ out' = compute_bs_fields(df, m)
        /\ grp' = GroupsOf(df, m.date)
        /\ UNCHANGED <<df, extractVars, routeVars, helperVars, uploadVars, persistVars, storeVars>>

\* /process for a session that names one file, the table df, as its P&L or
\* as its balance sheet, with every primitive mapped.
ProcessData ==
    \E key \in {"pl_file", "bs_file"} :
        /\ op = "none"
        /\ op' = "process_data"
        /\ arg' = [session |-> key, pl_map |-> BasePL, bs_map |-> BaseBS]
        /\ out' = process_data(IF key = "pl_file" THEN df ELSE EmptyFrame,
                               IF key = "bs_file" THEN df ELSE EmptyFrame,
                               [pl_map |-> BasePL, bs_map |-> BaseBS])
        /\ grp' = << >>
        /\ UNCHANGED <<df, extractVars, routeVars, helperVars, uploadVars, persistVars, storeVars>>

NextRollup == Rollup \/ ComputeMargin \/ ComputePL \/ ComputeBS \/ ProcessData

SpecRollup == InitRollup /\ [][NextRollup]_vars


\* ------------------------------------------------------ the sheets' state

\* The shapes of the generated sheets: the columns before the label column,
\* the value columns after it, and what heads the value columns: names
\* c1, c2, ..; dates from the second value column on (a business-unit sheet);
\* "Jan 25", "Feb 25", .. from the fourth on (a P&L sheet).
Shapes ==
    {[lead |-> 0, nvals |-> 8, head |-> "plain"],
     [lead |-> 0, nvals |-> 2, head |-> "plain"],
     [lead |-> 3, nvals |-> 8, head |-> "plain"],
     [lead |-> 3, nvals |-> 2, head |-> "plain"],
     [lead |-> 0, nvals |-> 8, head |-> "dated"],
     [lead |-> 0, nvals |-> 8, head |-> "pnl"]}

\* The value cell at position p of a row of the pattern.
PatternCell(pat, p) ==
    CASE pat = "gap" /\ p = 3 -> EmptyStr
      [] pat = "mixed" /\ p = 1 -> Null
      [] pat = "mixed" /\ p = 2 -> Text
      [] pat = "mixed" /\ p = 3 -> NumStr(30)
      [] pat = "rev" /\ p = 1 -> Str(Chars["Revenue"])
      [] pat = "inc" /\ p = 3 -> Str(Chars["Total Income"])
      [] pat = "inc" /\ p = 5 -> Text
      [] OTHER -> Num(10 * p)

\* The rows of the generated sheets, each a label cell and a pattern of value
\* cells: plain numbers; the gap of an empty cell; a null, a text and a
\* numeric string; a revenue row and a total-income row, whose labels are
\* further right.
RowKind(l, pat) == [label |-> l, pat |-> pat]
RowKinds ==
    {RowKind(Str(Chars["TG W2"]), "num"), RowKind(Str(Chars["TG W2"]), "gap"),
     RowKind(Str(Chars["TG W2"]), "mixed"), RowKind(Str(Chars[" W2 "]), "gap"),
     RowKind(Str(Chars["New Placements"]), "num"), RowKind(Str(Chars["New Placements"]), "mixed"),
     RowKind(Str(Chars["Net Income"]), "num"), RowKind(Str(Chars["Net Income"]), "mixed"),
     RowKind(Str(Chars["net income %"]), "num"),
     RowKind(Null, "rev"), RowKind(Null, "inc")}

SheetRow(shape, kind) ==
    [c \in 1..(shape.lead + 1 + shape.nvals) |->
        IF c <= shape.lead THEN Null
        ELSE IF c = shape.lead + 1 THEN kind.label
        ELSE PatternCell(kind.pat, c - shape.lead - 1)]

SheetHeader(shape) ==
    [c \in 1..(shape.lead + 1 + shape.nvals) |->
        LET p == c - shape.lead - 1
        IN IF shape.head = "dated" /\ p >= 2 THEN Ts(20250001 + 100 * (p - 1))
           ELSE IF shape.head = "pnl" /\ p >= 4 THEN Str(month_col(p - 3))
           ELSE Str(<<"c">> \o Digits(c))]

Sheets(n) ==
    {[header |-> SheetHeader(shape), rows |-> r] :
        <<shape, r>> \in UNION {
            {sp} \X SeqsUpTo({SheetRow(sp, kind) : kind \in RowKinds}, n) :
                sp \in Shapes}}

InitExtract ==
    /\ sheet \in Sheets(MaxSheetRows)
    /\ fn = "none"
    /\ res = ReturnedNothing
    /\ df = EmptyFrame /\ op = "none" /\ arg = << >>
    /\ out = [raised |-> FALSE, rows |-> << >>] /\ grp = << >>
    /\ book = [ok |-> FALSE, sheets |-> << >>] /\ route = "none" /\ resp = ErrorResponse
    /\ given = << >> /\ call = "none" /\ ret = << >>
    /\ uploads = << >> /\ session = << >> /\ now = 0 /\ answer = << >>
    /\ stored = << >> /\ pc = << >> /\ loaded = [got |-> "pending", doc |-> << >>]
    /\ firestore_db = << >> /\ disk = << >> /\ flask_session = << >> /\ backends = << >> /\ reply = << >> /\ latest = << >>

Sheet1Employment ==
    /\ fn = "none"
    /\ fn' = "process_sheet1_employment"
    /\ res' = process_sheet1_employment(sheet)
    /\ UNCHANGED <<sheet, rollupVars, routeVars, helperVars, uploadVars, persistVars, storeVars>>

Sheet2Placements ==
    /\ fn = "none"
    /\ fn' = "process_sheet2_placements"
    /\ res' = process_sheet2_placements(sheet)
    /\ UNCHANGED <<sheet, rollupVars, routeVars, helperVars, uploadVars, persistVars, storeVars>>

PlacementReport ==
    /\ fn = "none"
    /\ fn' = "process_placement_report"
    /\ res' = process_placement_report(sheet)
    /\ UNCHANGED <<sheet, rollupVars, routeVars, helperVars, uploadVars, persistVars, storeVars>>

Sheet3Margins ==
    /\ fn = "none"
    /\ fn' = "process_sheet3_margins"
    /\ res' = process_sheet3_margins(sheet)
    /\ UNCHANGED <<sheet, rollupVars, routeVars, helperVars, uploadVars, persistVars, storeVars>>

BusinessUnit ==
    /\ fn = "none"
    /\ fn' = "extract_business_unit_data"
    /\ res' = extract_business_unit_data(sheet)
    /\ UNCHANGED <<sheet, rollupVars, routeVars, helperVars, uploadVars, persistVars, storeVars>>

PnlData ==
    /\ fn = "none"
    /\ fn' = "extract_pnl_data"
    /\ res' = extract_pnl_data(sheet)
    /\ UNCHANGED <<sheet, rollupVars, routeVars, helperVars, uploadVars, persistVars, storeVars>>

NextExtract ==
    \/ Sheet1Employment
    \/ Sheet2Placements
    \/ PlacementReport
    \/ Sheet3Margins
    \/ BusinessUnit
    \/ PnlData

SpecExtract == InitExtract /\ [][NextExtract]_vars

\* ---------------------------------------------------- the workbooks' state

SampleSheet(shape, kinds) ==
    [header |-> SheetHeader(shape),
     rows |-> [i \in 1..Len(kinds) |-> SheetRow(shape, kinds[i])]]

\* The sheets of the generated workbooks: an employment sheet, a placements
\* sheet, a placements sheet with terminations and its own net placements, a
\* placements sheet of three columns, a business-unit sheet, and a sheet
\* without rows.
SampleSheets ==
    {SampleSheet([lead |-> 3, nvals |-> 8, head |-> "plain"],
                 <<RowKind(Str(Chars["TG W2"]), "num")>>),
     SampleSheet([lead |-> 0, nvals |-> 8, head |-> "plain"],
                 <<RowKind(Str(Chars["New Placements"]), "num"),
                   RowKind(Str(Chars[" W2 "]), "gap")>>),
     SampleSheet([lead |-> 0, nvals |-> 8, head |-> "plain"],
                 <<RowKind(Str(Chars["New Placements"]), "num"),
                   RowKind(Str(Chars["Terminations"]), "gap"),
                   RowKind(Str(Chars["Net Placements"]), "num")>>),
     SampleSheet([lead |-> 0, nvals |-> 2, head |-> "plain"],
                 <<RowKind(Str(Chars["New Placements"]), "num")>>),
     SampleSheet([lead |-> 0, nvals |-> 8, head |-> "dated"],
                 <<RowKind(Null, "rev"), RowKind(Str(Chars["Net Income"]), "mixed")>>),
     EmptySheet}

BookNames ==
    {Chars["Employment"], Chars["Placements"], Chars["Gross Margin IT Staffing"],
     Chars["Direct Hire Net income"]}

RECURSIVE SheetSeqs(_)
\* The sequences of at most n sheets with names of their own.
SheetSeqs(n) ==
    IF n = 0 THEN {<< >>}
    ELSE LET shorter == SheetSeqs(n - 1)
         IN shorter \cup
            {Append(q, [name |-> nm, sheet |-> sh]) :
                q \in {r \in shorter : Len(r) = n - 1},
                nm \in BookNames, sh \in SampleSheets}

Books(n) ==
    {[ok |-> TRUE, sheets |-> q] :
        q \in {r \in SheetSeqs(n) :
                 \A i, j \in 1..Len(r) : r[i].name = r[j].name => i = j}}
    \cup {[ok |-> FALSE, sheets |-> << >>]}

\* A request has a workbook to process or a tree to clean: the leaves, the
\* lists and dicts of up to two leaves, and those once more inside a list or
\* a dict, alone or beside a timestamp.
InitRoute ==
    /\ LET Leaves == {Num(1), Str(Chars["TBD"]), [k |-> "bool", v |-> 1], Null,
                      Ts(20250115), [k |-> "datetime", v |-> 20241203],
                      [k |-> "date", v |-> 20250128]}
           Flat == {[k |-> "list", items |-> q] : q \in SeqsUpTo(Leaves, 2)}
                   \cup {[k |-> "dict", items |-> f] :
                           f \in UNION {[K -> Leaves] : K \in SUBSET {"kpis", "charts"}}}
           Nested == UNION {{[k |-> "list", items |-> <<t>>],
                             [k |-> "list", items |-> <<Ts(20250115), t>>],
                             [k |-> "dict", items |-> [key \in {"kpis"} |-> t]],
                             [k |-> "dict",
                              items |-> [key \in {"kpis", "charts"} |->
                                            IF key = "kpis" THEN t ELSE Ts(20250115)]]} :
                            t \in Flat}
       IN \/ book \in Books(MaxSheets) /\ given = << >>
          \/ book = [ok |-> FALSE, sheets |-> << >>]
             /\ given \in Leaves \cup Flat \cup Nested
    /\ route = "none"
    /\ resp = ErrorResponse
    /\ df = EmptyFrame /\ op = "none" /\ arg = << >>
    /\ out = [raised |-> FALSE, rows |-> << >>] /\ grp = << >>
    /\ sheet = EmptySheet /\ fn = "none" /\ res = ReturnedNothing
    /\ call = "none" /\ ret = << >>
    /\ uploads = << >> /\ session = << >> /\ now = 0 /\ answer = << >>
    /\ stored = << >> /\ pc = << >> /\ loaded = [got |-> "pending", doc |-> << >>]
    /\ firestore_db = << >> /\ disk = << >> /\ flask_session = << >> /\ backends = << >> /\ reply = << >> /\ latest = << >>

PlacementReportRoute ==
    /\ route = "none"
    /\ route' = "process_placement_report_route"
    /\ resp' = process_placement_report_route(book)
    /\ UNCHANGED <<book, rollupVars, extractVars, helperVars, uploadVars, persistVars, storeVars>>

FinanceData ==
    /\ route = "none"
    /\ route' = "process_finance_data"
    /\ resp' = process_finance_data(book)
    /\ UNCHANGED <<book, rollupVars, extractVars, helperVars, uploadVars, persistVars, storeVars>>

CleanDataForJson ==
    /\ call = "none"
    /\ given # << >>
    /\ call' = "clean_data_for_json"
    /\ ret' = clean_data_for_json(given)
    /\ UNCHANGED <<given, rollupVars, extractVars, routeVars, uploadVars, persistVars, storeVars>>

NextRoute == PlacementReportRoute \/ FinanceData \/ CleanDataForJson

SpecRoute == InitRoute /\ [][NextRoute]_vars

\* ------------------------------------------------------ the helpers' state

\* The files read: no path; a path without a file; workbooks of up to
\* MaxSheets sheets with names of their own, under a lower-case and an
\* upper-case extension; files that are no workbook under a workbook's
\* extension; the texts under a CSV extension.  The values formatted: the
\* amounts at, next to and between the thresholds, of either sign, and the
\* cells that are no number.  The processed finance data: what
\* process_finance_data returns, the results of extract_business_unit_data
\* and extract_pnl_data (an empty dictionary, or lists of numbers) for the
\* sheets that were found, and the empty dictionary.
InitHelpers ==
    /\ given \in
        LET Amounts == {0, 5, 999, 1000, 1250, 1500, 999949, 999999, 1000000,
                        1234567, 2500000, 999999999, 1000000000, 2000000000}
            Values == {Num(v) : v \in Amounts} \cup {Num(0 - v) : v \in Amounts}
                      \cup {Text, NumStr(2), EmptyStr, Null, NaT}
            SheetNameSeqs ==
                {q \in SeqsUpTo({Chars["Sheet1"], Chars["Notes"], Chars["Summary"],
                                 Chars["Raw Data"], Chars["Placements"]}, MaxSheets) :
                    /\ q # << >>
                    /\ \A i, j \in 1..Len(q) : q[i] = q[j] => i = j}
            Lists == {<< >>, <<0, 0>>, <<100, 150>>, <<0 - 300>>}
            BusinessUnits == {"Direct Hire Net income", "Services Net income"}
            Companies == {"Techgene PnL new"}
            Extracted(names, keys) ==
                UNION {[some -> {<< >>} \cup [keys -> Lists]] : some \in SUBSET names}
            Contents ==
                {[kind |-> "workbook", sheet_names |-> q] : q \in SheetNameSeqs}
                \cup {[kind |-> k, sheet_names |-> << >>] :
                        k \in {"utf8", "latin1", "empty", "ragged", "bytes"}}
        IN {[path |-> << >>, exists |-> FALSE, content |-> [kind |-> "empty", sheet_names |-> << >>]],
            [path |-> Chars["r.xlsx"], exists |-> FALSE,
             content |-> [kind |-> "empty", sheet_names |-> << >>]]}
           \cup {[path |-> pth, exists |-> TRUE, content |-> c] :
                   pth \in {Chars["r.xlsx"], Chars["R.XLS"]},
                   c \in {x \in Contents : x.kind \in {"workbook", "empty", "bytes"}}}
           \cup {[path |-> Chars["d.csv"], exists |-> TRUE, content |-> c] :
                   c \in {x \in Contents : x.kind \in {"utf8", "latin1", "empty", "ragged"}}}
           \cup {[x |-> c] : c \in Values}
           \cup {[processed_data |-> [business_units |-> bu, monthly_data |-> md]] :
                   bu \in Extracted(BusinessUnits, {"revenue", "net_income"}),
                   md \in Extracted(Companies,
                                    {"total_income", "total_expense", "net_income"})}
           \cup {[processed_data |-> << >>]}
    /\ call = "none"
    /\ ret = << >>
    /\ df = EmptyFrame /\ op = "none" /\ arg = << >>
    /\ out = [raised |-> FALSE, rows |-> << >>] /\ grp = << >>
    /\ sheet = EmptySheet /\ fn = "none" /\ res = ReturnedNothing
    /\ book = [ok |-> FALSE, sheets |-> << >>] /\ route = "none" /\ resp = ErrorResponse
    /\ uploads = << >> /\ session = << >> /\ now = 0 /\ answer = << >>
    /\ stored = << >> /\ pc = << >> /\ loaded = [got |-> "pending", doc |-> << >>]
    /\ firestore_db = << >> /\ disk = << >> /\ flask_session = << >> /\ backends = << >> /\ reply = << >> /\ latest = << >>

ReadCsvFile ==
    /\ call = "none"
    /\ "path" \in DOMAIN given
    /\ call' = "read_csv_file"
    /\ ret' = read_csv_file(given)
    /\ UNCHANGED <<given, rollupVars, extractVars, routeVars, uploadVars, persistVars, storeVars>>

MoneyFmt ==
    /\ call = "none"
    /\ "x" \in DOMAIN given
    /\ call' = "money_fmt"
    /\ ret' = money_fmt(given.x)
    /\ UNCHANGED <<given, rollupVars, extractVars, routeVars, uploadVars, persistVars, storeVars>>

FinanceKpis ==
    /\ call = "none"
    /\ "processed_data" \in DOMAIN given
    /\ call' = "calculate_comprehensive_finance_kpis"
    /\ ret' = calculate_comprehensive_finance_kpis(given.processed_data)
    /\ UNCHANGED <<given, rollupVars, extractVars, routeVars, uploadVars, persistVars, storeVars>>

NextHelpers == ReadCsvFile \/ MoneyFmt \/ FinanceKpis

SpecHelpers == InitHelpers /\ [][NextHelpers]_vars

\* ------------------------------------------------------- the upload folder

\* A file of the upload folder is known by its path,
\* 'uploads/<user>_<type>_file_<stamp>.xlsx'; a session maps '<type>_file'
\* keys, here the types, to paths.  Requests come in different seconds.
InitUpload ==
    /\ uploads = << >>
    /\ session = [u \in {"u1", "u2"} |-> << >>]
    /\ now = 0
    /\ answer = << >>
    /\ df = EmptyFrame /\ op = "none" /\ arg = << >>
    /\ out = [raised |-> FALSE, rows |-> << >>] /\ grp = << >>
    /\ sheet = EmptySheet /\ fn = "none" /\ res = ReturnedNothing
    /\ book = [ok |-> FALSE, sheets |-> << >>] /\ route = "none" /\ resp = ErrorResponse
    /\ given = << >> /\ call = "none" /\ ret = << >>
    /\ stored = << >> /\ pc = << >> /\ loaded = [got |-> "pending", doc |-> << >>]
    /\ firestore_db = << >> /\ disk = << >> /\ flask_session = << >> /\ backends = << >> /\ reply = << >> /\ latest = << >>

\* upload_file for a request of current_user with form field type and a file
\* part: none, one without a filename, or a file of some content.  The file
\* is written under a fresh name after cleanup_old_user_files has removed the
\* user's files of the type; it is removed again when the placement workbook
\* cannot be read or is a finance workbook, and when processing raises.  The
\* type is the form field as sent: one of the pages' types, or a '*'.
UploadFile ==
    \E current_user \in {"u1", "u2"}, file_type \in {"rec", "finance", "pl", "*"},
       file \in {[part |-> FALSE, filename |-> FALSE, content |-> [kind |-> "bytes", sheet_names |-> << >>]],
                 [part |-> TRUE, filename |-> FALSE, content |-> [kind |-> "bytes", sheet_names |-> << >>]]}
                \cup {[part |-> TRUE, filename |-> TRUE, content |-> c] :
                        c \in {[kind |-> "workbook",
                                sheet_names |-> <<Chars["Employment"], Chars["Placements"]>>],
                               [kind |-> "workbook",
                                sheet_names |-> <<Chars["Direct Hire Net income"]>>],
                               [kind |-> "bytes", sheet_names |-> << >>],
                               [kind |-> "utf8", sheet_names |-> << >>]}} :
        LET was == IF file_type \in DOMAIN session[current_user]
                   THEN <<session[current_user][file_type]>> ELSE << >>
            named == get_user_file_path(uploads, current_user, file_type, now + 1)
            file_path == named.file_path
            cleaned == named.folder
            saved == [n \in DOMAIN cleaned \cup {file_path} |->
                        IF n = file_path THEN file.content ELSE cleaned[n]]
            pointed == [session EXCEPT ![current_user] =
                        [k \in DOMAIN session[current_user] \cup {file_type} |->
                            IF k = file_type THEN file_path ELSE session[current_user][k]]]
            finance_indicators ==
                BusinessUnitSheets \cup {Chars["Summary of Business Units"]}
            df_read == read_csv_file([path |-> Chars[".xlsx"], exists |-> TRUE,
                                      content |-> file.content])
            Answer(error, wrote) ==
                [route |-> "upload", user |-> current_user, type |-> file_type,
                 error |-> error, wrote |-> wrote, was |-> was]
        IN /\ now < MaxUploads
           /\ now' = now + 1
           /\ IF ~file.part \/ ~file.filename
              THEN /\ answer' = Answer(TRUE, << >>)
                   /\ UNCHANGED <<uploads, session>>
              ELSE IF file_type = "finance"
              THEN /\ uploads' = saved
                   /\ session' = pointed
                   /\ answer' = Answer(FALSE, <<file_path>>)
              ELSE IF file_type = "rec"
              THEN IF \/ file.content.kind # "workbook"
                      \/ \E i \in 1..Len(file.content.sheet_names) :
                            file.content.sheet_names[i] \in finance_indicators
                   THEN /\ uploads' = cleaned
                        /\ answer' = Answer(TRUE, <<file_path>>)
                        /\ UNCHANGED session
                   ELSE /\ uploads' = saved
                        /\ session' = pointed
                        /\ answer' = Answer(FALSE, <<file_path>>)
              ELSE IF df_read.raised
              THEN /\ uploads' = cleaned
                   /\ answer' = Answer(TRUE, <<file_path>>)
                   /\ UNCHANGED session
              ELSE IF df_read.empty
              THEN /\ uploads' = saved
                   /\ answer' = Answer(TRUE, <<file_path>>)
                   /\ UNCHANGED session
              ELSE /\ uploads' = saved
                   /\ session' = pointed
                   /\ answer' = Answer(FALSE, <<file_path>>)
           /\ UNCHANGED <<rollupVars, extractVars, routeVars, helperVars, persistVars, storeVars>>

\* A processing request of current_user in the browser that holds the
\* session of user owner (POST /auth/google logs a second user in without
\* clearing the session): the paths it read from the session, whether it
\* answered that access is denied, and the entries whose file it opened.
\* /process_placement_report and /process_finance_report check the path they
\* find in the session; /process reads the paths of 'pl_file' and 'rec_file'
\* as they are.
ProcessingRequest ==
    \E current_user \in {"u1", "u2"}, owner \in {"u1", "u2"},
       target \in {"process_placement_report", "process_finance_report", "process"} :
        LET keys == CASE target = "process_placement_report" -> {"rec"}
                      [] target = "process_finance_report" -> {"finance"}
                      [] OTHER -> {"pl", "rec"}
            held == {k \in keys : k \in DOMAIN session[owner]}
            startswith(file_path, k) ==
                LET prefix == Chars["uploads/"] \o Chars[current_user] \o Chars["_"]
                                \o Chars[k] \o Chars["_file_"]
                IN /\ Len(file_path) >= Len(prefix)
                   /\ SubSeq(file_path, 1, Len(prefix)) = prefix
            refused == {k \in held : target # "process" /\ ~startswith(session[owner][k], k)}
            passed == IF target = "process" \/ refused = {} THEN held ELSE {}
        IN /\ uploads # << >>
           /\ answer' = [route |-> target, user |-> current_user,
                         read |-> [k \in held |-> session[owner][k]],
                         denied |-> refused # {},
                         opened |-> {k \in passed : session[owner][k] \in DOMAIN uploads}]
           /\ UNCHANGED <<uploads, session, now, rollupVars, extractVars, routeVars,
                          helperVars, persistVars, storeVars>>

NextUpload == UploadFile \/ ProcessingRequest

SpecUpload == InitUpload /\ [][NextUpload]_vars

\* ------------------------------------------------------ the stored file

\* Two requests save to the file an earlier save has written, and a third
\* loads it.  A payload is the blocks its writer flushes, one write each:
\* the longer payload has MaxBlocks blocks, the shorter one.  Nothing locks
\* the file, and the steps of the three interleave freely.
InitPersist ==
    /\ stored = <<"p">>
    /\ pc = [s \in {"s1", "s2"} |->
                [at |-> "start", pos |-> 0,
                 payload |-> IF s = "s1" THEN [i \in 1..MaxBlocks |-> "a"] ELSE <<"b">>]]
    /\ loaded = [got |-> "pending", doc |-> << >>]
    /\ df = EmptyFrame /\ op = "none" /\ arg = << >>
    /\ out = [raised |-> FALSE, rows |-> << >>] /\ grp = << >>
    /\ sheet = EmptySheet /\ fn = "none" /\ res = ReturnedNothing
    /\ book = [ok |-> FALSE, sheets |-> << >>] /\ route = "none" /\ resp = ErrorResponse
    /\ given = << >> /\ call = "none" /\ ret = << >>
    /\ uploads = << >> /\ session = << >> /\ now = 0 /\ answer = << >>
    /\ firestore_db = << >> /\ disk = << >> /\ flask_session = << >> /\ backends = << >> /\ reply = << >> /\ latest = << >>

\* write_json, open(path, 'w'): the file is truncated, and the writer is at
\* offset 0 of it.
WriteJsonOpen ==
    \E s \in DOMAIN pc :
        /\ pc[s].at = "start"
        /\ stored' = << >>
        /\ pc' = [pc EXCEPT ![s].at = "open"]
        /\ UNCHANGED <<loaded, rollupVars, extractVars, routeVars, helperVars, uploadVars, storeVars>>

\* write_json, json.dump and the end of the with block: the next block goes
\* to the file at the writer's own offset, over what is there (after a gap
\* of zero bytes when the file has been truncated); the file is closed after
\* the last.
WriteJsonDump ==
    \E s \in DOMAIN pc :
        LET w == pc[s]
            size == IF Len(stored) > w.pos + 1 THEN Len(stored) ELSE w.pos + 1
        IN /\ w.at = "open"
           /\ stored' = [i \in 1..size |->
                            IF i = w.pos + 1 THEN w.payload[w.pos + 1]
                            ELSE IF i <= Len(stored) THEN stored[i] ELSE "0"]
           /\ pc' = [pc EXCEPT ![s].pos = w.pos + 1,
                               ![s].at = IF w.pos + 1 = Len(w.payload) THEN "done" ELSE "open"]
           /\ UNCHANGED <<loaded, rollupVars, extractVars, routeVars, helperVars, uploadVars, storeVars>>

\* load_user_recruitment_data_file, read_json: json.load of the file as it
\* is; an exception of it (an empty file, a document cut short or followed by
\* other bytes) is caught and None returned.
ReadJson ==
    /\ loaded = [got |-> "pending", doc |-> << >>]
    /\ loaded' = IF stored = <<"p">> \/ \E s \in DOMAIN pc : stored = pc[s].payload
                  THEN [got |-> "data", doc |-> stored]
                  ELSE [got |-> "None", doc |-> << >>]
    /\ UNCHANGED <<stored, pc, rollupVars, extractVars, routeVars, helperVars, uploadVars, storeVars>>

NextPersist == WriteJsonOpen \/ WriteJsonDump \/ ReadJson

SpecPersist == InitPersist /\ [][NextPersist]_vars

\* ---------------------------------------------- the stores and the session

\* A reply before any request.
NoReply ==
    [call |-> "none", user |-> "nobody", ok |-> FALSE, tried |-> << >>,
     wrote |-> {}, sent |-> << >>, loaded |-> << >>, data |-> << >>]

\* Two users share one browser; nobody is logged in, no store holds a
\* document, every backend answers, and Firestore is configured or not.
InitStore ==
    /\ firestore_db = [u \in {"u1", "u2"} |-> << >>]
    /\ disk = [u \in {"u1", "u2"} |-> << >>]
    /\ flask_session = [user |-> "nobody", data |-> << >>]
    /\ backends \in {[USE_FIRESTORE |-> b, up |-> {"firestore", "file", "session"}] :
                        b \in BOOLEAN}
    /\ reply = NoReply
    /\ latest = [of |-> [u \in {"u1", "u2"} |-> << >>], n |-> 0]
    /\ df = EmptyFrame /\ op = "none" /\ arg = << >>
    /\ out = [raised |-> FALSE, rows |-> << >>] /\ grp = << >>
    /\ sheet = EmptySheet /\ fn = "none" /\ res = ReturnedNothing
    /\ book = [ok |-> FALSE, sheets |-> << >>] /\ route = "none" /\ resp = ErrorResponse
    /\ given = << >> /\ call = "none" /\ ret = << >>
    /\ uploads = << >> /\ session = << >> /\ now = 0 /\ answer = << >>
    /\ stored = << >> /\ pc = << >> /\ loaded = [got |-> "pending", doc |-> << >>]

\* POST /auth/google with a valid token of user u: login_user, and the
\* session is left as it is.
GoogleAuth ==
    \E u \in {"u1", "u2"} :
        /\ flask_session' = [flask_session EXCEPT !.user = u]
        /\ reply' = [NoReply EXCEPT !.call = "google_auth", !.user = u]
        /\ UNCHANGED <<firestore_db, disk, backends, latest, rollupVars, extractVars,
                       routeVars, helperVars, uploadVars, persistVars>>

\* /logout: logout_user() and session.clear()
Logout ==
    /\ flask_session.user # "nobody"
    /\ flask_session' = [user |-> "nobody", data |-> << >>]
    /\ reply' = [NoReply EXCEPT !.call = "logout", !.user = flask_session.user]
    /\ UNCHANGED <<firestore_db, disk, backends, latest, rollupVars, extractVars,
                   routeVars, helperVars, uploadVars, persistVars>>

\* POST /clear_session_data: session.clear(), after which the remember
\* cookie of login_user(remember=True) logs the user in again or does not.
ClearSessionData ==
    \E who \in {flask_session.user, "nobody"} :
        /\ flask_session' = [user |-> who, data |-> << >>]
        /\ reply' = [NoReply EXCEPT !.call = "clear_session_data",
                                    !.user = flask_session.user]
        /\ UNCHANGED <<firestore_db, disk, backends, latest, rollupVars, extractVars,
                       routeVars, helperVars, uploadVars, persistVars>>

\* The end of a processing request of the user logged in: processed_data,
\* which json.dump can write or cannot, is saved with safe_save_user_data
\* and put in the session.
SaveProcessedData ==
    \E plain \in BOOLEAN :
        LET user == flask_session.user
            processed_data == [by |-> user, n |-> latest.n + 1, plain |-> plain]
            success == safe_save_user_data(
                        [firestore_db |-> firestore_db, disk |-> disk,
                         session |-> flask_session.data],
                        backends, user, processed_data)
        IN /\ user # "nobody"
           /\ latest.n < MaxSaves
           /\ firestore_db' = success.firestore_db
           /\ disk' = success.disk
           /\ flask_session' =
                [user |-> user,
                 data |-> [k \in DOMAIN success.session \cup {"processed_data"} |->
                            IF k = "processed_data" THEN processed_data
                            ELSE success.session[k]]]
           /\ reply' = [NoReply EXCEPT !.call = "process_placement_report",
                                       !.user = user, !.ok = success.ok,
                                       !.tried = success.tried, !.wrote = success.wrote,
                                       !.sent = <<processed_data>>]
           /\ latest' = [of |-> IF success.ok
                                THEN [latest.of EXCEPT ![user] = <<processed_data>>]
                                ELSE latest.of,
                         n |-> latest.n + 1]
           /\ UNCHANGED <<backends, rollupVars, extractVars, routeVars, helperVars,
                          uploadVars, persistVars>>

\* /check_existing_data of the user logged in, for the recruitment data.
CheckExistingData ==
    LET user == flask_session.user
        recruitment_data ==
            safe_load_user_data([firestore_db |-> firestore_db, disk |-> disk,
                                 session |-> flask_session.data], backends, user)
        has_recruitment_data == recruitment_data # << >>
        after ==
            IF has_recruitment_data /\ "processed_data" \notin DOMAIN flask_session.data
            THEN [k \in DOMAIN flask_session.data \cup {"processed_data"} |->
                    IF k = "processed_data" THEN recruitment_data[1]
                    ELSE flask_session.data[k]]
            ELSE flask_session.data
        has_recruitment_session == "processed_data" \in DOMAIN after
    IN /\ user # "nobody"
       /\ flask_session' = [user |-> user, data |-> after]
       /\ reply' = [NoReply EXCEPT
                        !.call = "check_existing_data", !.user = user,
                        !.loaded = recruitment_data,
                        !.data = IF has_recruitment_data THEN recruitment_data
                                 ELSE IF has_recruitment_session
                                 THEN <<after["processed_data"]>> ELSE << >>]
       /\ UNCHANGED <<firestore_db, disk, backends, latest, rollupVars, extractVars,
                      routeVars, helperVars, uploadVars, persistVars>>

\* A backend stops answering, or answers again.
Outage ==
    \E b \in {"firestore", "file", "session"} :
        /\ backends' = [backends EXCEPT !.up = IF b \in @ THEN @ \ {b} ELSE @ \cup {b}]
        /\ reply' = [NoReply EXCEPT !.call = "outage"]
        /\ UNCHANGED <<firestore_db, disk, flask_session, latest, rollupVars,
                       extractVars, routeVars, helperVars, uploadVars, persistVars>>

NextStore ==
    GoogleAuth \/ Logout \/ ClearSessionData \/ SaveProcessedData
        \/ CheckExistingData \/ Outage

SpecStore == InitStore /\ [][NextStore]_vars

\* ------------------------------------------------- the rollup, as claimed

\* What the claims say of a table, stated without the operators above.
Parses(c) == c.k \in {"ts", "datestr"}
IsNumeric(c) == c.k \in {"num", "numstr"}
\* A cell's number, a cell that is none counting as 0.
CellNum(c) == IF IsNumeric(c) THEN c.v ELSE 0
\* The first day of the calendar month of the date yyyymmdd.
FirstOfMonth(d) == (d \div 10000) * 10000 + ((d \div 100) % 100) * 100 + 1

\* A computation returned the monthly frame of the table's Date column.
Rolled == op \notin {"none", "process_data"} /\ ~out.raised /\ arg.date = "Date"

\* The rows of df dated in month m.
RowsOfMonth(m) ==
    {i \in 1..Len(df.rows) :
        Parses(df.rows[i]["Date"]) /\ FirstOfMonth(df.rows[i]["Date"].v) = m}

OutMonths == {out.rows[j].Month : j \in 1..Len(out.rows)}

\* The sum of the cells of row i in the columns a mapping value names.
MappedSum(i, mv) ==
    LET J == 1..Len(mv.cols)
    IN SumOver(J, [j \in J |-> CellNum(df.rows[i][mv.cols[j]])])

PLFieldOf ==
    [revenue |-> "__revenue", cogs |-> "__cogs", opex |-> "__opex",
     other_income |-> "__other_income", other_expense |-> "__other_expense"]
BSFieldOf ==
    [assets |-> "__assets", liabilities |-> "__liabilities", equity |-> "__equity"]

\* The aggregation declared for output field c by the computation applied.
FieldFn(c) ==
    CASE op = "monthly_rollup" -> arg.agg[c]
      [] op = "compute_margin_fields" ->
            IF c = arg.margin_percent THEN "mean" ELSE "sum"
      [] op = "compute_pl_fields" -> "sum"
      [] OTHER -> "mean"

\* The fields C2 is about: the columns aggregated as they are, the summed
\* balance-sheet fields and the P&L primitives.
DirectFields(j) ==
    IF op = "compute_pl_fields"
    THEN {PLFieldOf[key] : key \in Primitives}
    ELSE DOMAIN out.rows[j].val

\* The value of field c in row i of the table, and whether the row has one.
FieldValue(i, c) ==
    CASE op = "compute_pl_fields" ->
            MappedSum(i, arg[CHOOSE key \in Primitives : PLFieldOf[key] = c])
      [] op = "compute_bs_fields" ->
            MappedSum(i, arg[CHOOSE key \in BSKeys : BSFieldOf[key] = c])
      [] OTHER -> CellNum(df.rows[i][c])
FieldNumeric(i, c) ==
    op \in {"compute_pl_fields", "compute_bs_fields"} \/ IsNumeric(df.rows[i][c])

MonthTotal(S, c) == SumOver(S, [i \in S |-> FieldValue(i, c)])

\* C1: every row whose date cell parses is in exactly one group, that of the
\* first day of its calendar month; a row whose date cell does not parse is
\* in no group; the rows in minus the sum of the group sizes is the number of
\* rows with unparseable dates; the output months are the groups' months.
C1_RollupGrouping ==
    Rolled =>
        LET N == 1..Len(df.rows)
            bad == {i \in N : ~Parses(df.rows[i]["Date"])}
        IN /\ \A i \in N \ bad :
                LET m == FirstOfMonth(df.rows[i]["Date"].v)
                IN /\ m \in DOMAIN grp
                   /\ {g \in DOMAIN grp : i \in grp[g]} = {m}
           /\ \A i \in bad : \A g \in DOMAIN grp : i \notin grp[g]
           /\ Len(df.rows)
                - SumOver(DOMAIN grp, [g \in DOMAIN grp |-> Cardinality(grp[g])])
              = Cardinality(bad)
           /\ OutMonths = DOMAIN grp
           /\ Len(out.rows) = Cardinality(DOMAIN grp)

\* A rollup of a table with a row dated inside a month and a row whose date
\* does not parse: one group of one row, one row left out.
C1_Witness ==
    /\ op = "monthly_rollup"
    /\ Rolled
    /\ Len(df.rows) = 2
    /\ \E i \in 1..2 :
          /\ Parses(df.rows[i]["Date"])
          /\ df.rows[i]["Date"].v # FirstOfMonth(df.rows[i]["Date"].v)
          /\ grp[FirstOfMonth(df.rows[i]["Date"].v)] = {i}
    /\ \E i \in 1..2 : ~Parses(df.rows[i]["Date"])
    /\ Len(out.rows) = 1

\* C2: in every output month every field is its declared aggregation over
\* exactly the rows of that month: the sum of the values for a "sum" field,
\* and for a "mean" field whose rows all hold a number their arithmetic mean.
C2_DeclaredAggregation ==
    Rolled =>
        \A j \in 1..Len(out.rows) :
            LET S == RowsOfMonth(out.rows[j].Month)
            IN \A c \in DirectFields(j) :
                LET v == out.rows[j].val[c]
                IN IF FieldFn(c) = "sum"
                   THEN ~v.nan /\ v.den = 1 /\ v.num = MonthTotal(S, c)
                   ELSE (\A i \in S : FieldNumeric(i, c)) =>
                            /\ ~v.nan
                            /\ v.den > 0
                            /\ v.num * Cardinality(S) = MonthTotal(S, c) * v.den

\* A month of two rows with the numbers 1 and 2 in a "mean" field: 3/2.
C2_Witness ==
    /\ Rolled
    /\ op \in {"monthly_rollup", "compute_margin_fields"}
    /\ \E j \in 1..Len(out.rows) :
          /\ Cardinality(RowsOfMonth(out.rows[j].Month)) = 2
          /\ "A" \in DOMAIN out.rows[j].val
          /\ FieldFn("A") = "mean"
          /\ out.rows[j].val["A"] = Rat(3, 2)

\* C3: in every month every aggregated field, sum or mean, is the aggregate
\* of the month's rows with each value that failed the coercion replaced by
\* 0 (the row counting in a mean's denominator), and is never NaN.
C3_ZeroFill ==
    (Rolled /\ op \in {"monthly_rollup", "compute_margin_fields"}) =>
        \A j \in 1..Len(out.rows) :
            LET S == RowsOfMonth(out.rows[j].Month)
            IN \A c \in DOMAIN out.rows[j].val :
                LET v == out.rows[j].val[c]
                IN /\ ~v.nan
                   /\ v.num * (IF FieldFn(c) = "sum" THEN 1 ELSE Cardinality(S))
                        = MonthTotal(S, c) * v.den

\* C4: in every output month of compute_pl_fields the three identities hold
\* of the month's sums, and every field is the sum over that month's rows
\* alone of the row's own value.
C4_PLIdentities ==
    (Rolled /\ op = "compute_pl_fields") =>
        \A j \in 1..Len(out.rows) :
            LET S == RowsOfMonth(out.rows[j].Month)
                v == out.rows[j].val
                n(c) == v[c].num
                p(i, key) == MappedSum(i, arg[key])
                rowNet(i) == (p(i, "revenue") - p(i, "cogs") - p(i, "opex"))
                                + p(i, "other_income") - p(i, "other_expense")
            IN /\ \A c \in PLFields : ~v[c].nan /\ v[c].den = 1
               /\ n("__gross_profit") = n("__revenue") - n("__cogs")
               /\ n("__operating_income") = n("__gross_profit") - n("__opex")
               /\ n("__net_income")
                    = n("__operating_income") + n("__other_income")
                        - n("__other_expense")
               /\ n("__net_income")
                    = (n("__revenue") - n("__cogs") - n("__opex"))
                        + n("__other_income") - n("__other_expense")
               /\ \A key \in Primitives :
                    n(PLFieldOf[key]) = SumOver(S, [i \in S |-> p(i, key)])
               /\ n("__net_income") = SumOver(S, [i \in S |-> rowNet(i)])

\* A P&L month of two rows in which every primitive is positive.
C4_Witness ==
    /\ Rolled
    /\ op = "compute_pl_fields"
    /\ \E j \in 1..Len(out.rows) :
          /\ Cardinality(RowsOfMonth(out.rows[j].Month)) = 2
          /\ \A key \in Primitives : out.rows[j].val[PLFieldOf[key]].num > 0
          /\ out.rows[j].val["__net_income"].num # out.rows[j].val["__revenue"].num

\* C10: compute_pl_fields and compute_bs_fields raise nothing; a primitive
\* whose mapping has no entry, or names a column the table lacks, is 0 in
\* every month; a single column name gives what the one-element list gives.
C10_MissingPrimitiveIsZero ==
    (op \in {"compute_pl_fields", "compute_bs_fields"} /\ ~IsEmpty(df)) =>
        LET keys == IF op = "compute_pl_fields" THEN Primitives ELSE BSKeys
            fieldOf == IF op = "compute_pl_fields" THEN PLFieldOf ELSE BSFieldOf
            listed == [key \in DOMAIN arg |->
                         IF key # "date" /\ arg[key].k = "name"
                         THEN List(arg[key].cols) ELSE arg[key]]
        IN /\ ~out.raised
           /\ \A key \in keys :
                (arg[key].k = "none" \/ MissingCol(df, arg[key].cols)) =>
                    \A j \in 1..Len(out.rows) :
                        out.rows[j].val[fieldOf[key]].num = 0
           /\ out = IF op = "compute_pl_fields"
                    THEN compute_pl_fields(df, listed)
                    ELSE compute_bs_fields(df, listed)

\* C16: every chart builder returns a chart for every monthly series and
\* raises nothing, and /process returns its result (kpis, charts, has_*_data)
\* for every P&L or balance-sheet table whose rollup is non-empty.
C16_ChartsAreTotal ==
    /\ (op \in {"compute_pl_fields", "compute_bs_fields"} /\ ~out.raised) =>
            ~fig_line(out.rows).raised
    /\ (op = "process_data" /\ \E i \in 1..Len(df.rows) : Parses(df.rows[i]["Date"])) =>
            /\ ~out.raised
            /\ out.has_pl_data = (arg.session = "pl_file")
            /\ out.has_bs_data = (arg.session = "bs_file")

\* C19: the Month values of a monthly frame are strictly ascending, so each
\* calendar month appears at most once, and when the table has a row whose
\* date parses the last row is the latest month of the table.
C19_MonthsAscending ==
    (op \notin {"none", "process_data"} /\ ~out.raised) =>
        /\ \A j \in 1..(Len(out.rows) - 1) :
                out.rows[j].Month < out.rows[j + 1].Month
        /\ \A j, k \in 1..Len(out.rows) :
                out.rows[j].Month = out.rows[k].Month => j = k
        /\ (arg.date = "Date" /\ \E i \in 1..Len(df.rows) : Parses(df.rows[i]["Date"])) =>
                /\ out.rows # << >>
                /\ \A i \in 1..Len(df.rows) :
                        Parses(df.rows[i]["Date"]) =>
                            FirstOfMonth(df.rows[i]["Date"].v)
                                <= out.rows[Len(out.rows)].Month

\* A rollup of a table whose rows are not in date order: the later month is
\* the first row of the table and the last row of the result.
C19_Witness ==
    /\ op = "monthly_rollup"
    /\ ~out.raised
    /\ Len(df.rows) = 2
    /\ Parses(df.rows[1]["Date"]) /\ Parses(df.rows[2]["Date"])
    /\ df.rows[2]["Date"].v < df.rows[1]["Date"].v
    /\ Len(out.rows) = 2
    /\ out.rows[2].Month = FirstOfMonth(df.rows[1]["Date"].v)

Extracted ==
    /\ fn \notin {"none", "process_sheet3_margins"}
    /\ ~res.raised
    /\ ~res.none

\* The column an extractor looks for a label in.
LabelColumn(f, l) ==
    CASE f = "process_sheet1_employment" -> 3
      [] f = "extract_business_unit_data" /\ l = Chars["Revenue"] -> 1
      [] f = "extract_pnl_data" /\ l \in {Chars["Total Income"], Chars["Total Expense"]} -> 3
      [] OTHER -> 0

\* Whether a row is one the extractor takes for the label.
RowMatches(f, l, row) ==
    /\ Len(row) > LabelColumn(f, l)
    /\ LET text == StrOf(row[LabelColumn(f, l) + 1])
       IN CASE f \in {"process_sheet1_employment", "process_sheet2_placements"} ->
                  notna(row[LabelColumn(f, l) + 1]) /\ strip(text) = l
            [] f = "process_placement_report" -> contains(lower(text), lower(l))
            [] OTHER -> contains(text, l)

RowsMatching(l) == {i \in 1..Len(sheet.rows) : RowMatches(fn, l, sheet.rows[i])}
Topmost(l) == CHOOSE i \in RowsMatching(l) : \A j \in RowsMatching(l) : i <= j

LabelsSought(f) ==
    CASE f = "process_sheet1_employment" -> Sheet1Labels
      [] f = "process_sheet2_placements" -> Sheet2Labels
      [] f = "process_placement_report" -> ReportLabels
      [] f = "extract_business_unit_data" -> BULabels
      [] OTHER -> PnlLabels

Apply(f, sh) ==
    CASE f = "process_sheet1_employment" -> process_sheet1_employment(sh)
      [] f = "process_sheet2_placements" -> process_sheet2_placements(sh)
      [] f = "process_placement_report" -> process_placement_report(sh)
      [] f = "extract_business_unit_data" -> extract_business_unit_data(sh)
      [] OTHER -> extract_pnl_data(sh)

\* The sheet with row i alone.
OnlyRow(i) == [header |-> sheet.header, rows |-> <<sheet.rows[i]>>]

\* The first and last value column of a fixed or header-given value range.
FirstValueColumn(f) == IF f = "process_sheet1_employment" THEN 4 ELSE 1
LastValueColumn(f) ==
    CASE f = "process_sheet1_employment" -> 11
      [] f = "process_sheet2_placements" -> 8
      [] OTHER -> Width(sheet) - 1

\* C5: when several rows of a sheet match a label, the series of the label is
\* the series of the topmost matching row alone: it is what the extractor
\* returns for the sheet that holds only that row, whatever the rows below are
\* (process_sheet1_employment, process_sheet2_placements,
\* process_placement_report, extract_business_unit_data).
C5_TopmostRowOnly ==
    (Extracted /\ fn # "extract_pnl_data") =>
        \A l \in DOMAIN res.found :
            RowsMatching(l) # {} =>
                res.found[l] = Apply(fn, OnlyRow(Topmost(l))).found[l]

\* Two rows match a label of process_sheet2_placements, and the lower one
\* alone would give another series.
C5_Witness ==
    /\ Extracted
    /\ fn = "process_sheet2_placements"
    /\ \E l \in DOMAIN res.found :
        \E j \in RowsMatching(l) :
            /\ j > Topmost(l)
            /\ Apply(fn, OnlyRow(j)).found[l] # res.found[l]

\* C6: the series of a matched row has one number for each column of the
\* value range, and each is the value of its own cell when the cell is
\* numeric and 0 when it is empty, null or no number.
C6_CellwiseConversion ==
    (Extracted /\ fn \in {"process_sheet1_employment", "process_sheet2_placements",
                          "process_placement_report"}) =>
        \A l \in DOMAIN res.found :
            /\ RowsMatching(l) # {}
            /\ Len(res.found[l]) = LastValueColumn(fn) - FirstValueColumn(fn) + 1
            /\ \A p \in 1..Len(res.found[l]) :
                res.found[l][p] =
                    CellNum(sheet.rows[Topmost(l)][FirstValueColumn(fn) + p])

\* The row [10, 20, "", 40, 50, 60, 70, 80] of the label W2 has given
\* [10, 20, 0, 40, 50, 60, 70, 80].
C6_Witness ==
    /\ Extracted
    /\ fn = "process_sheet2_placements"
    /\ Chars["W2"] \in DOMAIN res.found
    /\ SubSeq(sheet.rows[Topmost(Chars["W2"])], 2, 9) =
         <<Num(10), Num(20), EmptyStr, Num(40), Num(50), Num(60), Num(70), Num(80)>>
    /\ res.found[Chars["W2"]] = <<10, 20, 0, 40, 50, 60, 70, 80>>

ZeroFilled(s) == Len(s) > 0 /\ \A p \in 1..Len(s) : s[p] = 0

\* C7: when no row of the sheet matches a label, the extractor has no
\* zero-filled series for the label (the label is absent from what it returns).
C7_AbsentNotZero ==
    Extracted =>
        \A l \in LabelsSought(fn) :
            RowsMatching(l) = {} =>
                ~(l \in DOMAIN res.found /\ ZeroFilled(res.found[l]))

\* C9: in a series of extract_business_unit_data, every month whose cell in
\* the matched row is numeric has the value of that cell, whatever the other
\* cells of the row hold.
C9_CoercionFailureIsLocal ==
    (Extracted /\ fn = "extract_business_unit_data") =>
        \A l \in DOMAIN res.found :
            RowsMatching(l) # {} =>
                \A p \in 1..Len(MonthColumns(sheet)) :
                    LET cell == sheet.rows[Topmost(l)][MonthColumns(sheet)[p]]
                    IN IsNumeric(cell) => res.found[l][p] = cell.v

\* C12: when the margins sheet has no usable company row, the margin data
\* are empty or every total is 0, and the gross-margin chart is empty: no
\* figure is shown that the sheet does not hold.
C12_NoInventedFigures ==
    (fn = "process_sheet3_margins" /\ UsableMarginRows(sheet) = {}) =>
        /\ \A n \in DOMAIN res.margin_data : res.margin_data[n][3] = 0
        /\ create_gross_margin_chart_from_sheets(res).labels = {}

\* The rows whose label, letter case apart, holds the label looked for.
RowsNamed(l) ==
    {i \in 1..Len(sheet.rows) :
        /\ Len(sheet.rows[i]) > LabelColumn(fn, l)
        /\ contains(lower(StrOf(sheet.rows[i][LabelColumn(fn, l) + 1])), lower(l))}

\* The cells of row i the extractor reads the values of a label from: the
\* columns after the label, the dated columns, the columns of the months.
ValueCells(i) ==
    CASE fn = "process_placement_report" ->
            [p \in 1..(Width(sheet) - 1) |-> sheet.rows[i][p + 1]]
      [] fn = "extract_business_unit_data" ->
            [p \in 1..Len(MonthColumns(sheet)) |-> sheet.rows[i][MonthColumns(sheet)[p]]]
      [] OTHER ->
            [m \in 1..Len(Months) |->
                IF \E c \in 1..Width(sheet) : sheet.header[c] = Str(month_col(m))
                THEN sheet.rows[i][CHOOSE c \in 1..Width(sheet) :
                                        sheet.header[c] = Str(month_col(m))]
                ELSE Num(0)]

\* C23: where an extractor finds a row by 'contains' (process_placement_report,
\* extract_business_unit_data, extract_pnl_data), a row whose label differs
\* from the label looked for only in letter case is matched: the series of
\* the label is read from the topmost such row.  Stated for rows of numbers,
\* and for a sheet none of whose rows holds another label of the extractor.
C23_ContainsIgnoresCase ==
    (Extracted /\ fn \in {"process_placement_report", "extract_business_unit_data",
                          "extract_pnl_data"}) =>
        \A l \in LabelsSought(fn) :
            (/\ RowsNamed(l) # {}
             /\ \A k \in LabelsSought(fn) \ {l} : RowsNamed(k) = {}) =>
                LET t == CHOOSE i \in RowsNamed(l) : \A j \in RowsNamed(l) : i <= j
                    cells == ValueCells(t)
                IN (\A p \in DOMAIN cells : IsNumeric(cells[p])) =>
                        /\ l \in DOMAIN res.found
                        /\ res.found[l] = [p \in DOMAIN cells |-> cells[p].v]

\* --------------------------------------------------- the routes, as claimed

\* What process_sheet2_placements makes of the second sheet of the workbook.
SecondSheetData == process_sheet2_placements(SheetAt(book, 2))

\* C8: for a workbook that loads, the placement-report request answers
\* success whatever its sheets are, with the charts of the second sheet
\* whenever that sheet extracts; and process_finance_data has an entry for
\* every business-unit and P&L sheet of the workbook.
C8_PartialExtraction ==
    /\ (route = "process_placement_report_route" /\ book.ok) =>
            /\ resp.success
            /\ (~SecondSheetData.raised /\ ~SecondSheetData.none) =>
                    {"placement_metrics", "billables_trend"} \subseteq resp.charts
    /\ (route = "process_finance_data" /\ book.ok) =>
            /\ DOMAIN resp.business_units = BusinessUnitSheets \cap SheetNames(book)
            /\ DOMAIN resp.monthly_data = PnlSheets \cap SheetNames(book)

\* The total over the eight months of the series extracted for a label of the
\* second sheet, and 0 when the sheet has no row of the label.
PeriodTotal(l) ==
    IF l \in DOMAIN SecondSheetData.found
    THEN LET s == SecondSheetData.found[l]
         IN s[1] + s[2] + s[3] + s[4] + s[5] + s[6] + s[7] + s[8]
    ELSE 0

\* The placement-report request has extracted the placement metrics.
MetricsExtracted ==
    /\ route = "process_placement_report_route"
    /\ resp.success
    /\ ~SecondSheetData.none

\* C11: whenever placement metrics were extracted, the 'Net Placements' KPI is
\* the total of the New Placements series minus the total of the Terminations
\* series over the whole period, a missing Terminations row counting as zero
\* terminations; it is not the sheet's own 'Net Placements' row.
C11_NetPlacementsKpi ==
    MetricsExtracted =>
        /\ "Net Placements" \in DOMAIN resp.kpis
        /\ resp.kpis["Net Placements"] =
              Fmt0(PeriodTotal(Chars["New Placements"]) - PeriodTotal(Chars["Terminations"]))

\* New placements of 360 and terminations of 330 have given a KPI of 30,
\* while the sheet's own 'Net Placements' row totals 360.
C11_Witness ==
    /\ MetricsExtracted
    /\ PeriodTotal(Chars["New Placements"]) = 360
    /\ Chars["Terminations"] \in DOMAIN SecondSheetData.found
    /\ PeriodTotal(Chars["Terminations"]) = 330
    /\ PeriodTotal(Chars["Net Placements"]) = 360
    /\ resp.kpis["Net Placements"] = <<"3", "0">>

RECURSIVE Cleaned(_, _)
\* Tree b is tree a with every date below it replaced by a string: the same
\* keys and lengths, the same numbers, strings, booleans and nulls.
Cleaned(a, b) ==
    CASE a.k = "dict" ->
            /\ b.k = "dict"
            /\ DOMAIN b.items = DOMAIN a.items
            /\ \A key \in DOMAIN a.items : Cleaned(a.items[key], b.items[key])
      [] a.k = "list" ->
            /\ b.k = "list"
            /\ Len(b.items) = Len(a.items)
            /\ \A i \in 1..Len(a.items) : Cleaned(a.items[i], b.items[i])
      [] a.k \in {"ts", "datetime", "date"} -> b.k = "str"
      [] OTHER -> b = a

\* The placement-report request has handed its tree to the persistence layer.
PlacementSaved == route = "process_placement_report_route" /\ resp.success

\* C17 as stated: the output of clean_data_for_json is its input with every
\* date replaced by a string, and every part of a tree a processing route
\* hands to the persistence layer has passed through it.
C17_CleanedBeforeSave ==
    /\ call = "clean_data_for_json" => Cleaned(given, ret)
    /\ PlacementSaved => resp.saved.parts \subseteq resp.saved.cleaned

\* C17, amended: the output of clean_data_for_json is its input with every
\* date or timestamp at any depth replaced by a string, the shape, the keys
\* and the other leaves unchanged; process_placement_report_route hands its
\* tree to the persistence layer as it built it, not passed through
\* clean_data_for_json.
C17_CleanOutput ==
    /\ call = "clean_data_for_json" => Cleaned(given, ret)
    /\ PlacementSaved => (resp.saved.parts # {} /\ resp.saved.cleaned = {})

\* A list inside a dict, with a timestamp in the list, came out with the
\* string of the timestamp in its place.
C17_Witness ==
    /\ call = "clean_data_for_json"
    /\ given.k = "dict"
    /\ "kpis" \in DOMAIN given.items
    /\ given.items["kpis"].k = "list"
    /\ Len(given.items["kpis"].items) = 2
    /\ given.items["kpis"].items[2] = Ts(20250115)
    /\ ret.items["kpis"].items[2] =
         Str(<<"2", "0", "2", "5", "-", "0", "1", "-", "1", "5", " ",
               "0", "0", ":", "0", "0", ":", "0", "0">>)

\* ------------------------------------------------- the helpers, as claimed

\* C13: read_csv_file raises nothing and returns the empty table for an
\* absent path, a path without a file, an empty file, a workbook that cannot
\* be read, and a CSV that does not parse after the Latin-1 retry.
C13_ReadNeverRaises ==
    call = "read_csv_file" =>
        /\ ~ret.raised
        /\ (\/ given.path = << >>
            \/ ~given.exists
            \/ given.content.kind \in {"empty", "bytes", "ragged"}) => ret.empty

\* The positions of the sheet names that hold a keyword in lower case.
KeywordSheets ==
    {i \in 1..Len(given.content.sheet_names) :
        \E keyword \in {Chars["consolidated"], Chars["data"], Chars["placement"],
                         Chars["summary"]} :
            contains(lower(given.content.sheet_names[i]), keyword)}

\* read_csv_file has read a workbook.
WorkbookRead ==
    /\ call = "read_csv_file"
    /\ given.exists
    /\ given.content.kind = "workbook"

\* C14: of a workbook, read_csv_file reads the first sheet in workbook order
\* whose lower-cased name contains 'consolidated', 'data', 'placement' or
\* 'summary', and the first sheet when no name does: one sheet of the
\* workbook for every non-empty list of sheet names.
C14_SheetSelection ==
    WorkbookRead =>
        /\ ~ret.raised
        /\ \E i \in 1..Len(given.content.sheet_names) :
              /\ ret.sheet = given.content.sheet_names[i]
              /\ IF KeywordSheets = {} THEN i = 1
                 ELSE i \in KeywordSheets /\ \A j \in KeywordSheets : i <= j

\* A workbook with two keyword sheets after a first sheet without a keyword:
\* the upper of the two was read.
C14_Witness ==
    /\ WorkbookRead
    /\ Cardinality(KeywordSheets) >= 2
    /\ 1 \notin KeywordSheets
    /\ ret.sheet = given.content.sheet_names[2]

\* C21: money_fmt chooses the suffix of a number from its magnitude alone:
\* B from 10^9, M from 10^6, k from 10^3, and below 10^3 no suffix and no
\* decimals; one form for every number, and a negative number keeps its sign.
C21_MoneySuffix ==
    (call = "money_fmt" /\ given.x.k = "num") =>
        LET x == given.x.v
            mag == IF x < 0 THEN 0 - x ELSE x
            last == ret[Len(ret)]
            dots == {i \in 1..Len(ret) : ret[i] = "."}
        IN /\ Len(ret) >= 2
           /\ ret[1] = "$"
           /\ (last = "B") = (mag >= 10 ^ 9)
           /\ (last = "M") = (mag >= 10 ^ 6 /\ mag < 10 ^ 9)
           /\ (last = "k") = (mag >= 10 ^ 3 /\ mag < 10 ^ 6)
           /\ (last \notin {"B", "M", "k"}) = (mag < 10 ^ 3)
           /\ mag < 10 ^ 3 => dots = {} /\ SubSeq(ret, 2, Len(ret)) = Fmt0(x)
           /\ mag >= 10 ^ 3 => Cardinality(dots) = 1
           /\ (ret[2] = "-") = (x < 0)

\* A negative amount of millions was formatted with the suffix M.
C21_Witness ==
    /\ call = "money_fmt"
    /\ given.x = Num(0 - 2500000)
    /\ ret = <<"$", "-", "2", ".", "5", "0", "M">>

\* C22: money_fmt returns the em dash for every input that is not a number:
\* a null, and a value that is no number, such as a text.
C22_PlaceholderForNonNumbers ==
    (call = "money_fmt" /\ given.x.k # "num") => ret = Chars["em dash"]

\* C30: calculate_comprehensive_finance_kpis divides by no zero; it returns
\* total_revenue, total_expenses, total_net_income, avg_monthly_revenue and
\* avg_monthly_net_income; profit_margin is returned exactly when the total
\* revenue is greater than 0, and is then total_net_income / total_revenue *
\* 100; the averages are the totals divided by 8.
C30_FinanceKpis ==
    call = "calculate_comprehensive_finance_kpis" =>
        LET kpis == ret.kpis
            Is(q, a, b) == q.den # 0 /\ b # 0 /\ q.num * b = a * q.den
        IN /\ ret.printed = << >>
           /\ {"total_revenue", "total_expenses", "total_net_income",
               "avg_monthly_revenue", "avg_monthly_net_income"} \subseteq DOMAIN kpis
           /\ "profit_margin" \in DOMAIN kpis <=> kpis.total_revenue.value > 0
           /\ "profit_margin" \in DOMAIN kpis =>
                 Is(kpis.profit_margin.value,
                    kpis.total_net_income.value * 100, kpis.total_revenue.value)
           /\ Is(kpis.avg_monthly_revenue.value, kpis.total_revenue.value, 8)
           /\ Is(kpis.avg_monthly_net_income.value, kpis.total_net_income.value, 8)

\* A revenue of 250 + 250 and a net income of -300 + 250: a margin of -10 %.
C30_Witness ==
    /\ call = "calculate_comprehensive_finance_kpis"
    /\ "profit_margin" \in DOMAIN ret.kpis
    /\ ret.kpis.total_revenue.value = 500
    /\ ret.kpis.profit_margin.value = [num |-> 0 - 5000, den |-> 500]
    /\ ret.kpis.avg_monthly_net_income.value = [num |-> 0 - 50, den |-> 8]

\* ------------------------------------------------- the uploads, as claimed

\* C15: when /upload has answered with an error, the file the request wrote
\* is not in the upload folder, and the '<type>_file' entry of the session is
\* what it was before the request.
C15_UploadFailsCleanly ==
    ("error" \in DOMAIN answer /\ answer.error) =>
        /\ \A i \in 1..Len(answer.wrote) : answer.wrote[i] \notin DOMAIN uploads
        /\ answer.was =
              IF answer.type \in DOMAIN session[answer.user]
              THEN <<session[answer.user][answer.type]>> ELSE << >>

\* The path starts with 'uploads/<user>_<type>_file_'.
OwnedPath(file_path, user, type) ==
    LET prefix == Chars["uploads/"] \o Chars[user] \o Chars["_"] \o Chars[type]
                    \o Chars["_file_"]
    IN /\ Len(file_path) >= Len(prefix)
       /\ SubSeq(file_path, 1, Len(prefix)) = prefix

\* C26: a processing route opens the file that a '<type>_file' entry of the
\* session names only when the path starts with
\* 'uploads/<current user>_<type>_file_', and answers that access is denied
\* when a path it read does not; so for /process_placement_report,
\* /process_finance_report and /process.
C26_FileOwnership ==
    (answer # << >> /\ answer.route # "upload") =>
        \A k \in DOMAIN answer.read :
            ~OwnedPath(answer.read[k], answer.user, k) =>
                answer.denied /\ k \notin answer.opened

\* C27: the upload folder holds at most one file named
\* '<user>_<type>_file_*.xlsx' for each user and type, and the files an
\* upload deletes are files of the uploading user and of the uploaded type.
C27_OneFilePerUserType ==
    [][/\ \A u \in {"u1", "u2"}, t \in {"rec", "finance", "pl", "*"} :
            Cardinality({n \in DOMAIN uploads' : OwnedPath(n, u, t)}) <= 1
       /\ \A n \in DOMAIN uploads \ DOMAIN uploads' :
            OwnedPath(n, answer'.user, answer'.type)]_vars

\* C29: a 'rec_file' or 'finance_file' entry of a session names a file that
\* is in the upload folder.
C29_SessionPointerValid ==
    \A u \in DOMAIN session : \A k \in DOMAIN session[u] \cap {"rec", "finance"} :
        session[u][k] \in DOMAIN uploads

\* --------------------------------------------- the stored file, as claimed

\* C18: after two concurrent saves the stored document is one of the two
\* payloads in whole, and a concurrent load returns a payload some save
\* wrote in whole, never 'no data' (a save had completed before).
C18_ConcurrentSaves ==
    /\ (\A s \in DOMAIN pc : pc[s].at = "done") =>
            \E s \in DOMAIN pc : stored = pc[s].payload
    /\ loaded.got # "pending" =>
            /\ loaded.got = "data"
            /\ \/ loaded.doc = <<"p">>
               \/ \E s \in DOMAIN pc : loaded.doc = pc[s].payload

\* -------------------------------------------------- the stores, as claimed

\* The backends a save may call, in the order of the claim.
BackendOrder ==
    (IF backends.USE_FIRESTORE THEN <<"firestore">> ELSE << >>) \o <<"file", "session">>

\* The backends that hold the payload of the request just answered.
HoldingSent ==
    {b \in {"firestore", "file", "session"} :
        CASE b = "firestore" -> firestore_db[reply.user] = reply.sent
          [] b = "file" -> disk[reply.user] = reply.sent
          [] OTHER -> /\ "recruitment_processed_data" \in DOMAIN flask_session.data
                      /\ <<flask_session.data["recruitment_processed_data"]>> = reply.sent}

\* The save just answered called the backends in the order Firestore, file
\* storage, session and stopped at the first that stored the payload; the
\* payload is in that backend alone; it returned True exactly when a backend
\* stored the payload, and False only after every enabled backend failed.
SaveOrdered ==
    /\ reply.tried = SubSeq(BackendOrder, 1, Len(reply.tried))
    /\ Cardinality(HoldingSent) <= 1
    /\ HoldingSent = reply.wrote
    /\ reply.ok = (HoldingSent # {})
    /\ reply.ok => HoldingSent = {reply.tried[Len(reply.tried)]}
    /\ ~reply.ok => reply.tried = BackendOrder

\* What the session holds under the key of the session fallback.
SessionFallback ==
    IF "recruitment_processed_data" \in DOMAIN flask_session.data
    THEN <<flask_session.data["recruitment_processed_data"]>> ELSE << >>

C25_ReadYourWrites ==
    (/\ reply.call = "check_existing_data"
     /\ reply.loaded # << >>
     /\ reply.loaded[1].by = reply.user) =>
        reply.loaded = latest.of[reply.user]

\* C28: /check_existing_data answers a user only with data that a processing
\* request of that user produced.
C28_UserIsolation ==
    (reply.call = "check_existing_data" /\ reply.data # << >>) =>
        reply.data[1].by = reply.user

====
